---- MODULE Spec2Model ----
(***************************************************************************)
(* LarkGate: the worker supervisor (InstanceManager), the request router   *)
(* (RequestRouter) and the OAuth broker (OAuthService) as state machines.  *)
(* Node.js runs each handler to its next await without interruption, so    *)
(* one action is one run of a handler between two awaits (or timer/event   *)
(* callbacks).                                                             *)
(***************************************************************************)
EXTENDS Integers, FiniteSets, Sequences, TLC

\* ------------------------------------------------------------------ bounds
Users == {"u1"}
Sessions == {"s1", "s2"}
RegistryUsers == {"u1", "u2"}
RegistrySessions == {"s1", "s2", "s3"}
MaxSessions == 2
SessionTtl == 86400000
SessionTick == 43200001
MaxSessionNow == 86400002
Calls == {1, 2}
Callbacks == {1, 2}
MaxTokens == 2
NoUser == "nouser"
NoInst == -1
NoPort == 0
DefaultId == 0
MaxInstances == 1
PortWindow == 3
BasePort == 3001
DefaultPort == 4000
GatewayPort == 3000
IdleTimeout == 60000
StateTtl == 600000
SweepPeriod == 300000
MaxOAuthNow == 600001
IdleTick == 30000
MaxIdleNow == 90000

UserWorkerIds == {1, 2}
WorkerIds == {DefaultId} \cup UserWorkerIds

VARIABLES
    gw,               \* gateway phase: "init", "waitdefault", "up", "down"
    inst,             \* every MCPInstance object ever built, by id
    instances,        \* InstanceManager.instances (keys)
    userInstances,    \* InstanceManager.userInstances
    defaultInstance,  \* InstanceManager.defaultInstance
    nextId,           \* next fresh instance id (uuidv4)
    sessionMappings,  \* RequestRouter.sessionMappings: the entries of the
                      \* LRUCache, least recently used first
    lastOp,           \* the session-registry call just made and its result
    call,             \* the routeRequest invocations in flight
    sweep,            \* the performHealthChecks run in flight
    shutdownTracked,  \* the workers tracked when shutdown() was called
    stateStore,       \* OAuthService.stateStore: records [token, sessionId, createdAt]
    swept,            \* when the state sweeper (setInterval) ran last
    nextToken,        \* index of the next fresh state token (randomBytes)
    issued,           \* the state parameters generateAuthUrl has handed out
    cb,               \* the handleCallback invocations in flight
    accepted,         \* per state token: the callbacks that passed validation
    now,              \* Date.now(), in ms since the gateway started
    tokenCache,       \* OAuthService.tokenCache
    tokenFile,        \* per user: what {data_dir}/user-{id}/tokens.json holds
    tok,              \* the token-store invocations in flight
    ret,              \* what the step just taken returned to its caller, if it did
    lastSaved,        \* history: per user, what the last undisturbed save stored
    cleared,          \* history: per user, a clear completed and no save has
                      \* taken a step since that clear started
    sse,              \* the GET /sse streams and GET /tools requests in flight
    resp,             \* what the step just taken answered to its caller, if it did
    config            \* the Config loadConfig returned: its ports and max_instances

supVars == <<gw, inst, instances, userInstances, defaultInstance, nextId,
             sessionMappings, call, sweep, shutdownTracked>>

oauthVars == <<stateStore, swept, nextToken, issued, cb, accepted>>

tokVars == <<tokenCache, tokenFile, tok, ret, lastSaved, cleared>>

ioVars == <<sse, resp>>

vars == <<supVars, oauthVars, tokVars, lastOp, now, ioVars, config>>

\* what the steps of the supervisor, of the state store and of the token
\* store leave alone
exceptSup == <<oauthVars, tokVars, lastOp, now, ioVars, config>>
exceptOAuth == <<supVars, tokVars, lastOp, now, ioVars, config>>
exceptTok == <<supVars, oauthVars, lastOp, ioVars, config>>
exceptSessions ==
    <<gw, inst, instances, userInstances, defaultInstance, nextId, call, sweep,
      shutdownTracked, oauthVars, tokVars, ioVars, config>>

\* ------------------------------------------------------------------ helpers
MinOf(S) == CHOOSE x \in S : \A y \in S : x <= y

NoWorker ==
    [userId |-> NoUser, port |-> NoPort, status |-> "none", proc |-> "none",
     sig |-> "none", lastActivity |-> 0]

IdleCall ==
    [pc |-> "idle", user |-> NoUser, port |-> NoPort, target |-> NoInst,
     made |-> NoInst]

IdleSweep == [todo |-> {}, cur |-> NoInst]

\* process.killed: set once kill() has delivered a signal to the child
Killed(w) == inst[w].sig # "none"

\* a child listening on the port of w answers its /health and /messages
ServerOn(p) == \E x \in WorkerIds : inst[x].proc = "live" /\ inst[x].port = p

\* the sessions that earlier OAuth callbacks have bound (s2 is not bound)
BoundSessions == <<[sessionId |-> "s1", userId |-> "u1", start |-> 0]>>

NoOp == [op |-> "none", sessionId |-> "", result |-> NoUser]

\* the configuration of an environment that sets none of the port variables
Shipped ==
    [port |-> GatewayPort, base_port |-> BasePort, default_instance_port |-> DefaultPort,
     max_instances |-> MaxInstances]

NoConfig ==
    [port |-> NoPort, base_port |-> NoPort, default_instance_port |-> NoPort,
     max_instances |-> 0]

\* loadConfig: the ports read from the environment, validated; NoConfig
\* stands for the throw that ends the process
LoadConfig(env) ==
    IF env.base_port <= env.port \/ env.default_instance_port <= env.port
    THEN NoConfig
    ELSE env

\* the supervisor after construction (the InstanceManager and RequestRouter
\* constructors): empty maps, no default worker
Constructed ==
    /\ gw = "init"
    /\ inst = [w \in WorkerIds |-> NoWorker]
    /\ instances = {}
    /\ userInstances = [u \in Users |-> NoInst]
    /\ defaultInstance = NoInst
    /\ nextId = 1
    /\ sessionMappings = BoundSessions
    /\ lastOp = NoOp
    /\ call = [c \in Calls |-> IdleCall]
    /\ sweep = IdleSweep
    /\ shutdownTracked = {}

\* the supervisor when index.ts starts to listen: initialize() has returned,
\* the default worker answered its readiness probe
Serving ==
    /\ gw = "up"
    /\ inst = [w \in WorkerIds |->
                IF w = DefaultId
                THEN [NoWorker EXCEPT !.userId = "default", !.port = DefaultPort,
                                      !.status = "running", !.proc = "live"]
                ELSE NoWorker]
    /\ instances = {}
    /\ userInstances = [u \in Users |-> NoInst]
    /\ defaultInstance = DefaultId
    /\ nextId = 1
    /\ sessionMappings = BoundSessions
    /\ lastOp = NoOp
    /\ call = [c \in Calls |-> IdleCall]
    /\ sweep = IdleSweep
    /\ shutdownTracked = {}

\* ------------------------------------------------------------------ startup
\* A spawn that fails (ENOENT, EACCES) emits 'error' on the next tick, before
\* any other event: the error handler has marked the instance by the time the
\* first await of the readiness wait yields. No 'exit' event follows.
Spawned(u, p, ok) ==
    [NoWorker EXCEPT !.userId = u, !.port = p,
                     !.status = IF ok THEN "starting" ELSE "error",
                     !.proc = IF ok THEN "live" ELSE "failed",
                     !.lastActivity = now]

StartDefaultInstance(ok) ==
    /\ gw = "init"
    /\ inst' = [inst EXCEPT ![DefaultId] =
                    Spawned("default", config.default_instance_port, ok)]
    /\ defaultInstance' = DefaultId
    /\ gw' = "waitdefault"
    /\ UNCHANGED <<instances, userInstances, nextId, sessionMappings, call, sweep,
                   shutdownTracked>>

\* waitForInstanceReady: what a poll that ends the wait does to the worker.
\* Both the probe that answers 2xx and the elapsed timeout test process.killed
\* and nothing else before they declare the worker running.
ReadyResult(w) == IF Killed(w) THEN "throw" ELSE "running"

\* initialize(): the readiness wait of the default worker ends (probe 2xx or
\* 30 s elapsed); a throw makes initialize() reject and the gateway exit(1)
DefaultReady(how) ==
    /\ gw = "waitdefault"
    /\ (how = "probe" /\ ~Killed(DefaultId)) => ServerOn(inst[DefaultId].port)
    /\ IF ReadyResult(DefaultId) = "running"
       THEN /\ inst' = [inst EXCEPT ![DefaultId].status = "running"]
            /\ gw' = "up"
       ELSE /\ gw' = "down"
            /\ UNCHANGED inst
    /\ UNCHANGED <<instances, userInstances, defaultInstance, nextId, sessionMappings,
                   call, sweep, shutdownTracked>>

\* ------------------------------------------------------------------ sessions
\* the entries of the LRUCache m other than that of key s
Without(m, s) == SelectSeq(m, LAMBDA e : e.sessionId # s)

\* LRUCache.get(s) finds an entry that has not outlived the ttl
Live(m, s) ==
    \E i \in 1..Len(m) : m[i].sessionId = s /\ now - m[i].start <= SessionTtl

\* the user the cache m holds for s (NoUser: none, or only a stale entry)
UserOf(m, s) ==
    IF Live(m, s) THEN (CHOOSE e \in {m[i] : i \in 1..Len(m)} : e.sessionId = s).userId
    ELSE NoUser

\* LRUCache.set(s, mapping): an entry of s is replaced; a new key at capacity
\* evicts the least recently used entry; the entry becomes the most recently
\* used and its ttl starts again
CacheSet(m, s, u) ==
    LET rest == Without(m, s)
        kept == IF Len(rest) >= MaxSessions THEN Tail(rest) ELSE rest
    IN  Append(kept, [sessionId |-> s, userId |-> u, start |-> now])

LookedAndDropped(s) == Without(sessionMappings, s)

\* the cache after getUserIdBySession(s): get (which deletes a stale entry)
\* and, for a mapping found, set again
Looked(s) ==
    IF Live(sessionMappings, s)
    THEN CacheSet(sessionMappings, s, UserOf(sessionMappings, s))
    ELSE Without(sessionMappings, s)

\* what RequestRouter.getUserIdBySession returns
GetUserIdBySession(s) == UserOf(sessionMappings, s)

\* RequestRouter.bindSessionToUser
BindSessionToUser(s, u) ==
    /\ sessionMappings' = CacheSet(sessionMappings, s, u)
    /\ lastOp' = [op |-> "bind", sessionId |-> s, result |-> u]

\* RequestRouter.getUserIdBySession, called by a route
LookupSession(s) ==
    /\ sessionMappings' = Looked(s)
    /\ lastOp' = [op |-> "lookup", sessionId |-> s, result |-> GetUserIdBySession(s)]

\* RequestRouter.isSessionAuthenticated: getUserIdBySession(s) !== null
IsSessionAuthenticated(s) ==
    /\ sessionMappings' = Looked(s)
    /\ lastOp' = [op |-> "auth", sessionId |-> s, result |-> GetUserIdBySession(s)]

\* RequestRouter.removeSession
RemoveSession(s) ==
    /\ sessionMappings' = Without(sessionMappings, s)
    /\ lastOp' = [op |-> "remove", sessionId |-> s, result |-> NoUser]

\* ------------------------------------------------------------------ lookup
GetAnyRunning(u) ==
    LET running == {w \in instances : inst[w].status = "running"} IN
    IF running = {} THEN NoInst ELSE CHOOSE w \in running : TRUE

\* InstanceManager.getInstanceByUserId: the mapped worker, if it is running
\* (its lastActivity is then set, see Touched)
GetInstanceByUserId(u) ==
    IF userInstances[u] # NoInst
       /\ userInstances[u] \in instances
       /\ inst[userInstances[u]].status = "running"
    THEN userInstances[u]
    ELSE NoInst

\* instance.lastActivity = new Date() on the table f
Touched(f, w) == IF w = NoInst THEN f ELSE [f EXCEPT ![w].lastActivity = now]

UsedByTable == {inst[w].port : w \in instances}

UsedPorts ==
    {inst[w].port : w \in instances}
        \cup (IF defaultInstance # NoInst THEN {inst[defaultInstance].port} ELSE {})

AllocateLargest ==
    LET free == {p \in config.base_port..(config.base_port + PortWindow - 1) :
                    p \notin UsedPorts}
    IN  IF free = {} THEN NoPort ELSE CHOOSE p \in free : \A q \in free : q <= p

\* InstanceManager.allocatePort: the smallest unused port of the window
AllocatePort ==
    LET free == {p \in config.base_port..(config.base_port + PortWindow - 1) :
                    p \notin UsedPorts}
    IN  IF free = {} THEN NoPort ELSE MinOf(free)

\* the workers bound to u whose status is running (whether or not the user
\* map points to them)
RunningFor(u) == {w \in UserWorkerIds : inst[w].userId = u /\ inst[w].status = "running"}

Creating == {c \in Calls : call[c].pc = "mkdir"}

\* ------------------------------------------------------------------ routing
\* routeRequest up to its first await: session lookup, getInstanceByUserId and
\* the synchronous head of createUserInstance (existing check, size check,
\* allocatePort), which ends at `await fs.mkdir`. The invocation takes the
\* first free slot of call.
RouteRequest(c, s) ==
    LET u == GetUserIdBySession(s)
        found == GetInstanceByUserId(u)
        base == [IdleCall EXCEPT !.user = u]
    IN
    /\ gw = "up"
    /\ call[c].pc = "idle"
    /\ \A d \in Calls : call[d].pc = "idle" => c <= d
    /\ IF u = NoUser
       THEN call' = [call EXCEPT ![c] = [base EXCEPT !.pc = "forward",
                                                     !.target = defaultInstance]]
       ELSE IF found # NoInst
            THEN call' = [call EXCEPT ![c] = [base EXCEPT !.pc = "forward",
                                                          !.target = found]]
            ELSE IF Cardinality(instances) >= config.max_instances \/ AllocatePort = NoPort
                 THEN \* createUserInstance throws; routeRequest falls back
                      call' = [call EXCEPT ![c] = [base EXCEPT !.pc = "forward",
                                                              !.target = defaultInstance]]
                 ELSE /\ (nextId + Cardinality(Creating)) \in UserWorkerIds
                      /\ call' = [call EXCEPT ![c] = [base EXCEPT !.pc = "mkdir",
                                                                 !.port = AllocatePort]]
    /\ inst' = IF u = NoUser THEN inst ELSE Touched(inst, found)
    /\ sessionMappings' = Looked(s)
    /\ UNCHANGED <<gw, instances, userInstances, defaultInstance, nextId, sweep,
                   shutdownTracked>>

\* createUserInstance after `await fs.mkdir`: spawn, build the instance, insert
\* it in both maps, install the process handlers, start the readiness wait
CreateSpawn(c, ok) ==
    /\ gw = "up"
    /\ call[c].pc = "mkdir"
    /\ inst' = [inst EXCEPT ![nextId] = Spawned(call[c].user, call[c].port, ok)]
    /\ instances' = instances \cup {nextId}
    /\ userInstances' = [userInstances EXCEPT ![call[c].user] = nextId]
    /\ call' = [call EXCEPT ![c].pc = "ready", ![c].port = NoPort, ![c].made = nextId,
                            ![c].target = nextId]
    /\ nextId' = nextId + 1
    /\ UNCHANGED <<gw, defaultInstance, sessionMappings, sweep, shutdownTracked>>

\* `await fs.mkdir` rejects: createUserInstance throws, routeRequest falls back
CreateMkdirFails(c) ==
    /\ gw = "up"
    /\ call[c].pc = "mkdir"
    /\ call' = [call EXCEPT ![c].pc = "forward", ![c].port = NoPort,
                            ![c].target = defaultInstance]
    /\ UNCHANGED <<gw, inst, instances, userInstances, defaultInstance, nextId,
                   sessionMappings, sweep, shutdownTracked>>

\* the readiness wait of createUserInstance ends (probe 2xx or 30 s elapsed);
\* createUserInstance returns the instance, or throws and routeRequest falls back
CreateReady(c, how) ==
    LET w == call[c].made IN
    /\ gw = "up"
    /\ call[c].pc = "ready"
    /\ (how = "probe" /\ ~Killed(w)) => ServerOn(inst[w].port)
    /\ IF ReadyResult(w) = "running"
       THEN /\ inst' = [inst EXCEPT ![w].status = "running"]
            /\ call' = [call EXCEPT ![c].pc = "forward"]
       ELSE /\ call' = [call EXCEPT ![c].pc = "forward",
                                    ![c].target = defaultInstance]
            /\ UNCHANGED inst
    /\ UNCHANGED <<gw, instances, userInstances, defaultInstance, nextId, sessionMappings,
                   sweep, shutdownTracked>>

RefusesNone(w) == FALSE

\* the status test of forwardRequest: only a running worker is posted to
Refuses(w) == inst[w].status # "running"

ForwardSendNoTouch(c) ==
    LET w == call[c].target IN
    /\ gw = "up"
    /\ call[c].pc = "forward"
    /\ IF w = NoInst
       THEN call' = [call EXCEPT ![c] = IdleCall]
       ELSE IF Refuses(w)
            THEN call' = [call EXCEPT ![c] = IdleCall]
            ELSE call' = [call EXCEPT ![c] = [IdleCall EXCEPT !.pc = "posting",
                                                              !.target = w]]
    /\ UNCHANGED <<gw, inst, instances, userInstances, defaultInstance, nextId, sessionMappings,
                   sweep, shutdownTracked>>

\* forwardRequest up to its fetch: set lastActivity, refuse a worker that is
\* not running (or an absent one: 'No available MCP instance'), else POST
ForwardSend(c) ==
    LET w == call[c].target IN
    /\ gw = "up"
    /\ call[c].pc = "forward"
    /\ IF w = NoInst
       THEN call' = [call EXCEPT ![c] = IdleCall]
       ELSE IF Refuses(w)
            THEN call' = [call EXCEPT ![c] = IdleCall]
            ELSE call' = [call EXCEPT ![c] = [IdleCall EXCEPT !.pc = "posting",
                                                              !.target = w]]
    /\ inst' = Touched(inst, w)
    /\ UNCHANGED <<gw, instances, userInstances, defaultInstance, nextId, sessionMappings,
                   sweep, shutdownTracked>>

\* the text of the error a failed fetch of forwardRequest rejects with, as
\* the fragments it holds: node-fetch reports a refused connection as
\* 'request to ... failed, reason: connect ECONNREFUSED ...', and an abort by
\* AbortSignal.timeout(30000) as 'The operation was aborted.'; a reply that
\* is not ok throws 'HTTP <status>: <statusText>'
ErrorMessage(outcome) ==
    CASE outcome = "transport" -> {"request", "failed", "reason", "connect", "ECONNREFUSED"}
      [] outcome = "timeout" -> {"The", "operation", "was", "aborted"}
      [] OTHER -> {"HTTP"}

\* the test of the catch of forwardRequest: message.includes('ECONNREFUSED')
\* || message.includes('timeout')
MarksError(outcome) ==
    outcome # "ok" /\ ({"ECONNREFUSED", "timeout"} \cap ErrorMessage(outcome) # {})

\* the fetch of forwardRequest settles: a JSON-RPC reply ("ok"), a connection
\* refusal ("transport"), the 30 s timeout ("timeout"), or another failure
\* ("other": HTTP status, malformed reply); the catch marks the worker error
\* if the message says so
ForwardReply(c, outcome) ==
    LET w == call[c].target IN
    /\ gw = "up"
    /\ call[c].pc = "posting"
    /\ outcome = "ok" => ServerOn(inst[w].port)
    /\ inst' = IF MarksError(outcome) THEN [inst EXCEPT ![w].status = "error"] ELSE inst
    /\ call' = [call EXCEPT ![c] = IdleCall]
    /\ UNCHANGED <<gw, instances, userInstances, defaultInstance, nextId, sessionMappings,
                   sweep, shutdownTracked>>

\* ------------------------------------------------------------------ children
\* the 'exit' handler of setupProcessHandlers: mark stopped, drop the table
\* entry, and drop the user-map entry of the worker's user (whatever it holds)
ExitedInst(w) ==
    [inst EXCEPT ![w].proc = "dead", ![w].status = "stopped"]

ExitedUserMap(w) ==
    IF inst[w].userId # "default"
    THEN [u \in DOMAIN userInstances |->
            IF u = inst[w].userId THEN NoInst ELSE userInstances[u]]
    ELSE userInstances

ChildExitDropsDefault(w) ==
    /\ inst[w].proc = "live"
    /\ gw # "down"
    /\ inst' = ExitedInst(w)
    /\ instances' = instances \ {w}
    /\ userInstances' = ExitedUserMap(w)
    /\ defaultInstance' = IF w = DefaultId THEN NoInst ELSE defaultInstance
    /\ UNCHANGED <<gw, nextId, sessionMappings, call, sweep, shutdownTracked>>

\* the child of w ends (crash, or a signal taking effect); while the gateway
\* lives its exit handler runs
ChildExit(w) ==
    /\ inst[w].proc = "live"
    /\ IF gw = "down"
       THEN /\ inst' = [inst EXCEPT ![w].proc = "dead"]
            /\ UNCHANGED <<instances, userInstances>>
       ELSE /\ inst' = ExitedInst(w)
            /\ instances' = instances \ {w}
            /\ userInstances' = ExitedUserMap(w)
    /\ UNCHANGED <<gw, defaultInstance, nextId, sessionMappings, call, sweep,
                   shutdownTracked>>

\* process.kill(signal): delivered only to a child that still runs
Kill(r, signal) == IF r.proc = "live" THEN [r EXCEPT !.sig = signal] ELSE r

StopInstanceMarksStopped(f, id) ==
    IF id \in instances /\ f[id].status = "running"
    THEN [f EXCEPT ![id] = [Kill(f[id], "SIGTERM") EXCEPT !.status = "stopped"]]
    ELSE f

\* InstanceManager.stopInstance on the table f (it also arms the 5 s timer)
StopInstance(f, id) ==
    IF id \in instances /\ f[id].status = "running"
    THEN [f EXCEPT ![id] = [Kill(f[id], "SIGTERM") EXCEPT !.status = "stopping"]]
    ELSE f

\* the setTimeout of stopInstance fires, 5 s after the SIGTERM: it acts only
\* on a worker still in status stopping. (A timer that finds another status,
\* or a child already gone, changes nothing and is left out.)
KillTimer(w) ==
    /\ gw # "down"
    /\ inst[w].sig = "SIGTERM"
    /\ inst[w].proc = "live"
    /\ inst[w].status = "stopping"
    /\ inst' = [inst EXCEPT ![w] = Kill(inst[w], "SIGKILL")]
    /\ UNCHANGED <<gw, instances, userInstances, defaultInstance, nextId, sessionMappings,
                   call, sweep, shutdownTracked>>

\* ------------------------------------------------------------------ periodic
NoIdleInstances == {}

\* the table entries cleanupIdleInstances finds idle at this moment
IdleInstances ==
    {w \in instances : inst[w].userId # "default"
                       /\ now - inst[w].lastActivity > IdleTimeout}

\* InstanceManager.cleanupIdleInstances (every 60 s): stopInstance for every
\* table entry whose idle time now - lastActivity exceeds idle_timeout_ms.
\* idle is that set of entries: the time that went by since each was last
\* touched is the environment's.
CleanupIdleInstances(idle) ==
    /\ gw \in {"waitdefault", "up"}
    /\ \A w \in idle : inst[w].userId # "default"
    /\ inst' = [w \in WorkerIds |->
                 IF w \in idle THEN StopInstance(inst, w)[w] ELSE inst[w]]
    /\ UNCHANGED <<gw, instances, userInstances, defaultInstance, nextId, sessionMappings,
                   call, sweep, shutdownTracked>>

\* performHealthChecks runs synchronously over the instances that are not
\* running, up to the fetch of the next one that is
NextProbe(todo, f) ==
    IF \E w \in todo : f[w].status = "running"
    THEN MinOf({w \in todo : f[w].status = "running"})
    ELSE NoInst

SweepAdvance(todo, f) ==
    LET w == NextProbe(todo, f) IN
    IF w = NoInst
    THEN IdleSweep
    ELSE [todo |-> {x \in todo : x > w}, cur |-> w]

\* InstanceManager.performHealthChecks (every 30 s): snapshot of the default
\* worker and the table, in insertion order
PerformHealthChecks ==
    /\ gw \in {"waitdefault", "up"}
    /\ sweep.cur = NoInst
    /\ sweep' = SweepAdvance((instances \cup {defaultInstance}) \ {NoInst}, inst)
    /\ UNCHANGED <<gw, inst, instances, userInstances, defaultInstance, nextId,
                   sessionMappings, call, shutdownTracked>>

\* the probe of performHealthChecks settles; a failed probe marks the worker
\* error whatever its status has become
ProbeResult(ok) ==
    LET w == sweep.cur IN
    /\ gw # "down"
    /\ w # NoInst
    /\ ok => ServerOn(inst[w].port)
    /\ inst' = IF ok THEN inst ELSE [inst EXCEPT ![w].status = "error"]
    /\ sweep' = SweepAdvance(sweep.todo, inst')
    /\ UNCHANGED <<gw, instances, userInstances, defaultInstance, nextId, sessionMappings,
                   call, shutdownTracked>>

\* ------------------------------------------------------------------ shutdown
\* InstanceManager.shutdown: stopInstance for every key of the table, then for
\* defaultInstance.id, which is no key of the table. It returns at once (the
\* stopInstance promises are already settled) and index.ts ends the gateway
\* process: its invocations in flight and its timers end with it.
Shutdown ==
    /\ gw = "up"
    /\ shutdownTracked' = instances \cup {defaultInstance}
    /\ inst' = [w \in WorkerIds |->
                 IF w \in instances \cup {defaultInstance}
                 THEN StopInstance(inst, w)[w] ELSE inst[w]]
    /\ gw' = "down"
    /\ call' = [c \in Calls |-> IdleCall]
    /\ sweep' = IdleSweep
    /\ UNCHANGED <<instances, userInstances, defaultInstance, nextId, sessionMappings>>

\* ------------------------------------------------------------------ reclaim
\* An instance object that left the table and that no invocation in flight
\* holds any more is unreachable: nothing reads its user, port or signal
\* again. Its record keeps the status and the ended child.
Held(w) ==
    \/ w = DefaultId
    \/ w \in instances
    \/ w \in shutdownTracked
    \/ \E c \in Calls : w \in {call[c].target, call[c].made}
    \/ w = sweep.cur
    \/ w \in sweep.todo

Reclaimed(r) == [NoWorker EXCEPT !.status = r.status, !.proc = r.proc]

Garbage == {w \in UserWorkerIds : inst[w].status # "none" /\ ~Held(w)
                                   /\ inst[w] # Reclaimed(inst[w])}

Reclaim ==
    /\ Garbage # {}
    /\ inst' = [w \in WorkerIds |-> IF w \in Garbage THEN Reclaimed(inst[w]) ELSE inst[w]]
    /\ UNCHANGED <<gw, instances, userInstances, defaultInstance, nextId, sessionMappings,
                   call, sweep, shutdownTracked>>

\* ------------------------------------------------------------------ oauth
\* Strings that are split or joined are sequences of pieces; Sep is '_'.
Sep == "_"
Undefined == <<"undefined">>

\* randomBytes(32).toString('hex'): a fresh token without any '_'
TokenName(i) == <<ToString(i)>>
AllTokens == {TokenName(i) : i \in 1..MaxTokens}
ForgedToken == <<"f">>

\* session ids as the transport hands them out; one holds a '_'
OAuthSessions == {<<"s1">>, <<"s2", Sep, "x">>}

\* a session id as the registry keys it (the query string, in one piece)
SessionKey(sid) ==
    CASE sid = <<"s1">> -> "s1"
      [] sid = <<"s2", Sep, "x">> -> "s2_x"
      [] OTHER -> "undefined"

\* the template `${state}_${sessionId}` of generateAuthUrl
StateParam(token, sessionId) == token \o <<Sep>> \o sessionId

\* String.prototype.split('_')
RECURSIVE Split(_)
Split(str) ==
    IF \A i \in 1..Len(str) : str[i] # Sep
    THEN <<str>>
    ELSE LET i == MinOf({j \in 1..Len(str) : str[j] = Sep})
         IN  <<SubSeq(str, 1, i - 1)>> \o Split(SubSeq(str, i + 1, Len(str)))

\* the array destructuring `const [stateToken, sessionId] = ...`
Piece(parts, k) == IF k <= Len(parts) THEN parts[k] ELSE Undefined

\* stateStore.get(token): the stored session id, or undefined
StateGet(token) ==
    IF \E r \in stateStore : r.token = token
    THEN (CHOOSE r \in stateStore : r.token = token).sessionId
    ELSE Undefined

ConsumeNothing(store, token) == store

\* stateStore.delete(token)
Consume(store, token) == {r \in store : r.token # token}

\* one GET /oauth/callback request: where it stands, the state it presented,
\* the union_id the identity fetch gave, and how it ended
IdleCallback == [pc |-> "idle", state |-> <<>>, user |-> NoUser, outcome |-> "none"]

OAuthInit ==
    /\ stateStore = {}
    /\ swept = 0
    /\ nextToken = 1
    /\ issued = {}
    /\ cb = [c \in Callbacks |-> IdleCallback]
    /\ accepted = [t \in AllTokens |-> 0]

\* OAuthService.generateAuthUrl
GenerateAuthUrl(sessionId) ==
    /\ nextToken <= MaxTokens
    /\ stateStore' = stateStore \cup {[token |-> TokenName(nextToken),
                                       sessionId |-> sessionId,
                                       createdAt |-> now]}
    /\ issued' = issued \cup {StateParam(TokenName(nextToken), sessionId)}
    /\ nextToken' = nextToken + 1
    /\ UNCHANGED <<swept, cb, accepted>>

\* the entries the sweeper finds older than 10 min at this moment
Expired == {r \in stateStore : now - r.createdAt > StateTtl}

\* the setInterval callback of the constructor: it runs every 5 min and
\* deletes the entries older than 10 min
StateCleanup ==
    /\ now - swept >= SweepPeriod
    /\ stateStore' = stateStore \ Expired
    /\ swept' = now
    /\ UNCHANGED <<nextToken, issued, cb, accepted>>

\* the instants the clock may show next: just after a multiple of the sweep
\* period, or the next multiple
NextInstants ==
    IF now % SweepPeriod = 0 THEN {now + 1, now + SweepPeriod}
    ELSE {now - (now % SweepPeriod) + SweepPeriod}

\* what a browser or an attacker can present as the state parameter
Presentable ==
    issued \cup {StateParam(t, sid) : t \in {r.token : r \in stateStore} \cup {ForgedToken},
                                      sid \in OAuthSessions}
           \cup {ForgedToken}

ValidIfStored(stateData, sessionId) == stateData # Undefined

\* the test of handleCallback: an entry exists and its session id is the
\* parsed one
Valid(stateData, sessionId) == stateData # Undefined /\ stateData = sessionId

\* OAuthService.handleCallback up to its first await: parse the state, look
\* the token up, reject, or consume the token and go on to the code exchange
HandleCallback(c, state) ==
    LET parts == Split(state)
        stateToken == Piece(parts, 1)
        sessionId == Piece(parts, 2)
        stateData == StateGet(stateToken)
    IN
    /\ cb[c].pc = "idle"
    /\ IF ~Valid(stateData, sessionId)
       THEN /\ cb' = [cb EXCEPT ![c] = [IdleCallback EXCEPT !.state = state,
                                                        !.outcome = "rejected"]]
            /\ UNCHANGED <<stateStore, accepted>>
       ELSE /\ stateStore' = Consume(stateStore, stateToken)
            /\ accepted' = [accepted EXCEPT ![stateToken] = @ + 1]
            /\ cb' = [cb EXCEPT ![c] = [IdleCallback EXCEPT !.pc = "exchange",
                                                        !.state = state]]
    /\ UNCHANGED <<swept, nextToken, issued>>

\* the awaited rest of handleCallback (code exchange, user info, token save)
\* settles: the callback returns {sessionId, userId} or rethrows
CallbackSettle(c, ok) ==
    /\ cb[c].pc = "exchange"
    /\ cb' = [cb EXCEPT ![c].pc = "idle",
                        ![c].outcome = IF ok THEN "bound" ELSE "failed"]
    /\ UNCHANGED <<stateStore, swept, nextToken, issued, accepted>>

\* ------------------------------------------------------------------ tokens
\* OAuthService's credential store: tokenCache and the tokens.json files.
TokOps == {1, 2}
RefreshMargin == 300000
MaxNow == 1500

\* expires_in (seconds) as the identity provider may answer
ExpiresIn == {200, 3600}

\* how far the clock moves between two steps (ms)
TokenTicks == {1500}

\* null where UserTokens | null is returned or cached
NoTokens ==
    [userId |-> NoUser, access_token |-> "", refresh_token |-> "", expires_at |-> 0]

\* OAuthTokenResponse as exchangeCodeForToken hands it to saveUserTokens
Granted == {[access_token |-> "a1", refresh_token |-> "r1", expires_in |-> 200]}

\* data.data of the refresh endpoint; refresh_token may be missing ("")
Refreshed ==
    {[access_token |-> "a2", refresh_token |-> "", expires_in |-> 200],
     [access_token |-> "a2", refresh_token |-> "r2", expires_in |-> 3600]}

NoGrant == [access_token |-> "", refresh_token |-> "", expires_in |-> 0]

ToISOStringSeconds(t) == <<t \div 1000, 0>>

\* Date.prototype.toISOString (what JSON.stringify writes for a Date): the
\* seconds and the three digits of milliseconds
ToISOString(t) == <<t \div 1000, t % 1000>>

\* new Date(isoString).getTime()
NewDate(iso) == iso[1] * 1000 + iso[2]

\* JSON.stringify(userTokens, null, 2)
JsonStringify(t) ==
    [userId |-> t.userId, access_token |-> t.access_token,
     refresh_token |-> t.refresh_token, expires_at |-> ToISOString(t.expires_at)]

\* JSON.parse(data) followed by tokens.expires_at = new Date(tokens.expires_at)
Revive(text) ==
    [userId |-> text.userId, access_token |-> text.access_token,
     refresh_token |-> text.refresh_token, expires_at |-> NewDate(text.expires_at)]

\* tokens.json: absent, empty (opened with O_TRUNC, nothing written yet),
\* partial (a prefix of the text), or full
NoFile == [state |-> "absent", text |-> JsonStringify(NoTokens)]
EmptyFile == [state |-> "empty", text |-> JsonStringify(NoTokens)]
PartialFile == [state |-> "partial", text |-> JsonStringify(NoTokens)]
FullFile(t) == [state |-> "full", text |-> JsonStringify(t)]

\* one invocation of saveUserTokens, loadUserTokens, clearUserTokens or
\* ensureValidToken.  sinceSave, sinceClear and alone are history: whether an
\* undisturbed save of the user (lastSaved) and a clear of the user had
\* completed when it started (for a clear: whether no save of the user has
\* taken a step since it started), and whether no other invocation ran
\* meanwhile.
IdleTok ==
    [kind |-> "none", pc |-> "idle", user |-> NoUser, input |-> NoGrant,
     file |-> NoFile, tokens |-> NoTokens, res |-> NoTokens, threw |-> FALSE,
     via |-> "none", sinceSave |-> FALSE, sinceClear |-> FALSE, alone |-> FALSE]

Free(o) == tok[o].pc = "idle"

InFlight == {o \in TokOps : ~Free(o)}

\* what a caller gets back, and when
NoReturn ==
    [kind |-> "none", user |-> NoUser, res |-> NoTokens, threw |-> FALSE,
     via |-> "none", expect |-> NoTokens, sinceClear |-> FALSE, at |-> 0]

Return(r) ==
    [kind |-> r.kind, user |-> r.user, res |-> r.res, threw |-> r.threw,
     via |-> r.via,
     expect |-> IF r.sinceSave THEN lastSaved[r.user] ELSE NoTokens,
     sinceClear |-> r.sinceClear, at |-> now]

\* r is where a step leaves an invocation: at pc "done" it has returned
Returned(r) == IF r.pc = "done" THEN Return(r) ELSE NoReturn

TokensInit ==
    /\ tokenCache = [u \in Users |-> NoTokens]
    /\ tokenFile = [u \in Users |-> NoFile]
    /\ tok = [o \in TokOps |-> IdleTok]
    /\ ret = NoReturn
    /\ lastSaved = [u \in Users |-> NoTokens]
    /\ cleared = [u \in Users |-> FALSE]

\* the invocations after a step of o that leaves o as r (returned, its slot
\* is free again).  The history of the
\* others follows: they are no longer alone once o starts, and a step of a
\* save (saving) or the start of a clear (clearing) of their user ends what
\* they knew of the last save and the last clear.
Step(o, r, starting, saving, clearing) ==
    [x \in TokOps |->
        IF x = o THEN (IF r.pc = "done" THEN IdleTok ELSE r)
        ELSE IF tok[x].user # r.user THEN [tok[x] EXCEPT !.alone = @ /\ ~starting]
        ELSE [tok[x] EXCEPT !.alone = @ /\ ~starting,
                            !.sinceSave = @ /\ ~(saving \/ clearing),
                            !.sinceClear = @ /\ ~saving]]

\* a fresh invocation record of o
Fresh(o, kind, u) ==
    [IdleTok EXCEPT !.kind = kind, !.user = u, !.sinceSave = (lastSaved[u] # NoTokens),
                    !.sinceClear = cleared[u], !.alone = (InFlight \ {o} = {})]

\* ensureValidToken after `await this.loadUserTokens(userId)` (lines 243-256),
\* up to the fetch of refreshUserToken (whose own loadUserTokens hits the
\* cache); loadUserTokens itself just returns t
AfterLoad(r, t, via) ==
    IF r.kind = "load" \/ t = NoTokens
    THEN [r EXCEPT !.pc = "done", !.res = t, !.via = via]
    ELSE IF now >= t.expires_at - RefreshMargin
         THEN [r EXCEPT !.pc = "fetch", !.tokens = t, !.via = via]
         ELSE [r EXCEPT !.pc = "done", !.res = t, !.via = via]

\* loadUserTokens up to its await: a cache hit returns, a miss reads the file
LoadCall(o, u, kind) ==
    LET r == Fresh(o, kind, u)
        rr == IF tokenCache[u] # NoTokens THEN AfterLoad(r, tokenCache[u], "cache")
              ELSE [r EXCEPT !.pc = "read"]
    IN
    /\ Free(o)
    /\ tok' = Step(o, rr, TRUE, FALSE, FALSE)
    /\ ret' = Returned(rr)
    /\ UNCHANGED <<tokenCache, tokenFile, lastSaved, cleared>>

\* OAuthService.loadUserTokens
LoadUserTokens(o, u) == LoadCall(o, u, "load")

\* OAuthService.ensureValidToken
EnsureValidToken(o, u) == LoadCall(o, u, "ensure")

\* fs.readFile gets the bytes the file holds
ReadFile(o) ==
    /\ tok[o].pc = "read"
    /\ tok' = [tok EXCEPT ![o].pc = "parse", ![o].file = tokenFile[tok[o].user]]
    /\ ret' = NoReturn
    /\ UNCHANGED <<tokenCache, tokenFile, lastSaved, cleared>>

\* the continuation of loadUserTokens: parse, revive the date, cache, return;
\* a missing, empty or cut file throws and null is returned
LoadParse(o) ==
    LET r == tok[o]
        tokens == Revive(r.file.text)
        rr == AfterLoad(r, IF r.file.state = "full" THEN tokens ELSE NoTokens, "file")
    IN
    /\ r.pc = "parse"
    /\ tokenCache' = IF r.file.state = "full"
                     THEN [tokenCache EXCEPT ![r.user] = tokens]
                     ELSE tokenCache
    /\ tok' = Step(o, rr, FALSE, FALSE, FALSE)
    /\ ret' = Returned(rr)
    /\ UNCHANGED <<tokenFile, lastSaved, cleared>>

\* a throw inside saveUserTokens: the caller of save sees it, refreshUserToken
\* catches it, drops the cache entry and returns null
Thrown(r) ==
    IF r.kind = "save" THEN [r EXCEPT !.pc = "done", !.threw = TRUE]
    ELSE [r EXCEPT !.pc = "done", !.res = NoTokens]

CacheKept(r, cache) == cache

CacheAfterThrow(r, cache) ==
    IF r.kind = "save" THEN cache ELSE [cache EXCEPT ![r.user] = NoTokens]

\* refreshUserToken once the fetch has settled: on a failure the cache entry
\* is dropped and null returned; else newTokens is built and saveUserTokens
\* called
RefreshReply(o, ok, data) ==
    LET r == tok[o]
        newTokens ==
            [userId |-> r.user,
             access_token |-> data.access_token,
             refresh_token |-> IF data.refresh_token = "" THEN r.tokens.refresh_token
                               ELSE data.refresh_token,
             expires_at |-> now + data.expires_in * 1000]
    IN
    /\ r.pc = "fetch"
    /\ IF ok
       THEN /\ tok' = Step(o, [r EXCEPT !.pc = "mkdir", !.tokens = newTokens,
                                       !.input = [access_token |-> newTokens.access_token,
                                                  refresh_token |-> newTokens.refresh_token,
                                                  expires_in |-> data.expires_in]],
                        FALSE, TRUE, FALSE)
            /\ lastSaved' = [lastSaved EXCEPT ![r.user] = NoTokens]
            /\ cleared' = [cleared EXCEPT ![r.user] = FALSE]
            /\ ret' = NoReturn
            /\ UNCHANGED tokenCache
       ELSE /\ tok' = Step(o, Thrown(r), FALSE, FALSE, FALSE)
            /\ ret' = Return(Thrown(r))
            /\ tokenCache' = CacheAfterThrow(r, tokenCache)
            /\ UNCHANGED <<lastSaved, cleared>>
    /\ UNCHANGED tokenFile

\* OAuthService.saveUserTokens up to `await fs.mkdir`
SaveUserTokens(o, u, c) ==
    /\ Free(o)
    /\ tok' = Step(o, [Fresh(o, "save", u) EXCEPT !.pc = "mkdir", !.input = c],
                   TRUE, TRUE, FALSE)
    /\ lastSaved' = [lastSaved EXCEPT ![u] = NoTokens]
    /\ cleared' = [cleared EXCEPT ![u] = FALSE]
    /\ ret' = NoReturn
    /\ UNCHANGED <<tokenCache, tokenFile>>

\* saveUserTokens from the mkdir to `await fs.writeFile`: the record is built
\* with the clock of this moment, cached, and its text handed to writeFile
SaveMkdir(o, ok) ==
    LET r == tok[o]
        userTokens ==
            [userId |-> r.user, access_token |-> r.input.access_token,
             refresh_token |-> r.input.refresh_token,
             expires_at |-> now + r.input.expires_in * 1000]
    IN
    /\ r.pc = "mkdir"
    /\ IF ok
       THEN /\ tokenCache' = [tokenCache EXCEPT ![r.user] = userTokens]
            /\ tok' = Step(o, [r EXCEPT !.pc = "open", !.file = FullFile(userTokens)],
                        FALSE, TRUE, FALSE)
            /\ ret' = NoReturn
       ELSE /\ tokenCache' = CacheAfterThrow(r, tokenCache)
            /\ tok' = Step(o, Thrown(r), FALSE, TRUE, FALSE)
            /\ ret' = Return(Thrown(r))
    /\ lastSaved' = [lastSaved EXCEPT ![r.user] = NoTokens]
    /\ cleared' = [cleared EXCEPT ![r.user] = FALSE]
    /\ UNCHANGED tokenFile

\* fs.writeFile opens tokens.json with flag 'w': the file is created or cut
\* to length 0
WriteOpen(o) ==
    LET r == tok[o] IN
    /\ r.pc = "open"
    /\ tokenFile' = [tokenFile EXCEPT ![r.user] = EmptyFile]
    /\ tok' = Step(o, [r EXCEPT !.pc = "write"], FALSE, TRUE, FALSE)
    /\ lastSaved' = [lastSaved EXCEPT ![r.user] = NoTokens]
    /\ cleared' = [cleared EXCEPT ![r.user] = FALSE]
    /\ ret' = NoReturn
    /\ UNCHANGED tokenCache

\* fs.writeFile writes and settles: all of the text ("ok"), or an error after
\* a part of it ("partial") or none of it ("none").  saveUserTokens returns;
\* refreshUserToken returns its newTokens.
WriteData(o, how) ==
    LET r == tok[o] IN
    /\ r.pc = "write"
    /\ tokenFile' = [tokenFile EXCEPT ![r.user] =
                        CASE how = "ok" -> r.file
                          [] how = "partial" -> PartialFile
                          [] OTHER -> @]
    /\ IF how = "ok"
       THEN /\ tok' = Step(o, [r EXCEPT !.pc = "done", !.res = r.tokens], FALSE, TRUE, FALSE)
            /\ ret' = Return([r EXCEPT !.res = r.tokens])
            /\ lastSaved' = [lastSaved EXCEPT ![r.user] =
                                IF r.alone THEN tokenCache[r.user] ELSE NoTokens]
            /\ UNCHANGED tokenCache
       ELSE /\ tok' = Step(o, Thrown(r), FALSE, TRUE, FALSE)
            /\ ret' = Return(Thrown(r))
            /\ lastSaved' = [lastSaved EXCEPT ![r.user] = NoTokens]
            /\ tokenCache' = CacheAfterThrow(r, tokenCache)
    /\ cleared' = [cleared EXCEPT ![r.user] = FALSE]

\* OAuthService.clearUserTokens up to `await fs.unlink`
ClearUserTokens(o, u) ==
    /\ Free(o)
    /\ tokenCache' = [tokenCache EXCEPT ![u] = NoTokens]
    /\ tok' = Step(o, [Fresh(o, "clear", u) EXCEPT !.pc = "unlink", !.sinceClear = TRUE],
                   TRUE, FALSE, TRUE)
    /\ lastSaved' = [lastSaved EXCEPT ![u] = NoTokens]
    /\ ret' = NoReturn
    /\ UNCHANGED <<tokenFile, cleared>>

\* fs.unlink settles: the file is removed, or was not there (ENOENT), or the
\* unlink fails otherwise (EACCES); clearUserTokens swallows either error
ClearUnlink(o, how) ==
    LET r == tok[o] IN
    /\ r.pc = "unlink"
    /\ how = "ok" => tokenFile[r.user].state # "absent"
    /\ how = "ENOENT" => tokenFile[r.user].state = "absent"
    /\ tokenFile' = [tokenFile EXCEPT ![r.user] = IF how = "ok" THEN NoFile ELSE @]
    /\ tok' = Step(o, [r EXCEPT !.pc = "done"], FALSE, FALSE, FALSE)
    /\ ret' = Return(r)
    /\ cleared' = [cleared EXCEPT ![r.user] = r.sinceClear]
    /\ lastSaved' = [lastSaved EXCEPT ![r.user] = NoTokens]
    /\ UNCHANGED tokenCache

\* the gateway process ends (the shutdown handler's process.exit, or a
\* crash) and is started again: what was in flight is gone, the cache is a
\* new empty Map, the files stay
ProcessExit ==
    /\ tok' = [o \in TokOps |-> IdleTok]
    /\ tokenCache' = [u \in Users |-> NoTokens]
    /\ ret' = NoReturn
    /\ UNCHANGED <<tokenFile, lastSaved, cleared>>

\* time goes by
Advance(d, horizon) ==
    /\ now + d <= horizon
    /\ now' = now + d

\* ------------------------------------------------------------------ bootstrap
\* GET /sse and GET /tools of index.ts, with getToolsFromDefaultInstance and
\* getCapabilitiesFromDefaultInstance of the router.
Streams == {1}
MaxKeepAlives == 1

\* what is written to a stream: comment lines and data events
Event(type) ==
    [type |-> type, authenticated |-> FALSE, oauth_url |-> FALSE, tools |-> "none"]

\* one GET /sse stream (or GET /tools request): where its handler stands, the
\* two bootstrap calls, what each Promise.race has settled with, what was
\* written, and reply.raw.destroyed
IdleStream ==
    [pc |-> "idle", session |-> <<>>, toolsCall |-> "idle", capsCall |-> "idle",
     tools |-> "none", caps |-> "none", out |-> <<>>, destroyed |-> FALSE]

NoResponse == [id |-> 0, code |-> 0, cause |-> "none", worker |-> NoInst]

IoInit ==
    /\ sse = [k \in Streams |-> IdleStream]
    /\ resp = NoResponse

\* the MCPResponse routeRequest returns for the request of invocation c: the
\* worker's reply as it came ("ok"), or the error -32603 with the id of the
\* request
Answer(c, cause) ==
    [id |-> c, code |-> IF cause = "ok" THEN 0 ELSE -32603, cause |-> cause,
     worker |-> call[c].target]

\* forwardRequest up to its fetch, with what routeRequest returns when no
\* POST is made: 'No available MCP instance' or '... is not running'
ForwardRequest(c) ==
    /\ ForwardSend(c)
    /\ resp' = IF call'[c].pc = "posting" THEN NoResponse
               ELSE Answer(c, IF call[c].target = NoInst THEN "noinstance"
                              ELSE "notrunning")

\* the fetch settles, with what routeRequest returns
ForwardResponse(c, outcome) ==
    /\ ForwardReply(c, outcome)
    /\ resp' = Answer(c, outcome)

\* getToolsFromDefaultInstance / getCapabilitiesFromDefaultInstance up to
\* their first await: they throw without a default worker; forwardRequest
\* refuses a worker that is not running, and the fallback is returned;
\* else the POST is under way
BootCall ==
    IF defaultInstance = NoInst THEN "threw"
    ELSE IF inst[defaultInstance].status # "running" THEN "fallback"
    ELSE "posting"

\* what the call returns once its fetch has settled: the worker's result, or
\* the fallback after a JSON-RPC error reply or any failure
BootResult(outcome) == IF outcome = "ok" THEN "worker" ELSE "fallback"

\* a direct call of getToolsFromDefaultInstance: the GET /tools route, or any
\* holder of the router
GetToolsFromDefaultInstance(k) ==
    /\ gw # "down"
    /\ sse[k].pc \in {"idle", "closed"}
    /\ sse' = [sse EXCEPT ![k] =
                  [IdleStream EXCEPT !.pc = IF BootCall = "posting" THEN "tools" ELSE "idle",
                                     !.toolsCall = BootCall]]
    /\ inst' = Touched(inst, defaultInstance)
    /\ UNCHANGED <<gw, instances, userInstances, defaultInstance, nextId, sessionMappings,
                   call, sweep, shutdownTracked, oauthVars, resp>>

\* reply.raw.write on the stream r
Written(r, events) == IF r.destroyed THEN r.out ELSE r.out \o events

EventsSwapped(r, auth) ==
    <<[Event("capabilities") EXCEPT !.tools = r.caps],
      [Event("metadata") EXCEPT !.authenticated = auth, !.oauth_url = ~auth,
                                !.tools = r.tools]>>

MetadataAlwaysWithUrl(r, auth) ==
    [Event("metadata") EXCEPT !.authenticated = auth, !.oauth_url = TRUE, !.tools = r.tools]

\* the metadata event: authenticated is isSessionAuthenticated(sessionId),
\* oauth_url is set if it is false
Metadata(r, auth) ==
    [Event("metadata") EXCEPT !.authenticated = auth, !.oauth_url = ~auth,
                              !.tools = r.tools]

\* the two events the handler writes once Promise.all has settled
SseEvents(r, auth) ==
    <<Metadata(r, auth), [Event("capabilities") EXCEPT !.tools = r.caps]>>

\* the handler of stream k after a step that leaves the stream as r: while a
\* race is pending it waits; a thrown call makes it write the error event;
\* else it looks the session up, makes the authorisation URL of a session
\* that is not authenticated, writes the two events and sets the keepalive
\* interval, all in one run
SseSettle(k, r) ==
    LET auth == GetUserIdBySession(SessionKey(r.session)) # NoUser IN
    IF r.pc # "boot" \/ "pending" \in {r.tools, r.caps}
    THEN /\ sse' = [sse EXCEPT ![k] = r]
         /\ UNCHANGED <<sessionMappings, oauthVars>>
    ELSE IF "threw" \in {r.tools, r.caps}
         THEN /\ sse' = [sse EXCEPT ![k] =
                            [r EXCEPT !.pc = "failed",
                                      !.out = Written(r, <<Event("error")>>)]]
              /\ UNCHANGED <<sessionMappings, oauthVars>>
         ELSE /\ sse' = [sse EXCEPT ![k] =
                            [r EXCEPT !.pc = "streaming",
                                      !.out = Written(r, SseEvents(r, auth))]]
              /\ sessionMappings' = Looked(SessionKey(r.session))
              /\ IF auth THEN UNCHANGED oauthVars ELSE GenerateAuthUrl(r.session)

\* GET /sse up to setImmediate: the headers and the comment line are written
SseOpen(k, sid) ==
    /\ gw = "up"
    /\ sse[k].pc \in {"idle", "closed"}
    /\ nextToken + Cardinality({j \in Streams : sse[j].pc \in {"opened", "boot"}})
          <= MaxTokens
    /\ sse' = [sse EXCEPT ![k] = [IdleStream EXCEPT !.pc = "opened", !.session = sid,
                                                    !.out = <<Event("comment")>>]]
    /\ UNCHANGED <<supVars, oauthVars, resp>>

\* the setImmediate callback: both bootstrap calls start, each raced against
\* a 3 s timer
SseBoot(k) ==
    LET raced == IF BootCall = "posting" THEN "pending" ELSE BootCall IN
    /\ gw = "up"
    /\ sse[k].pc = "opened"
    /\ inst' = Touched(inst, defaultInstance)
    /\ SseSettle(k, [sse[k] EXCEPT !.pc = "boot", !.toolsCall = BootCall,
                                   !.capsCall = BootCall, !.tools = raced,
                                   !.caps = raced])
    /\ UNCHANGED <<gw, instances, userInstances, defaultInstance, nextId, call, sweep,
                   shutdownTracked, resp>>

\* the fetch of a bootstrap call settles (which: "toolsCall" or "capsCall");
\* a race the timer has settled keeps its value
BootReply(k, which, outcome) ==
    LET r == sse[k]
        race == IF which = "toolsCall" THEN "tools" ELSE "caps"
        r1 == [r EXCEPT ![which] = BootResult(outcome),
                        ![race] = IF @ = "pending" THEN BootResult(outcome) ELSE @]
    IN
    /\ gw # "down"
    /\ r[which] = "posting"
    /\ outcome = "ok" => ServerOn(inst[defaultInstance].port)
    /\ inst' = IF MarksError(outcome)
               THEN [inst EXCEPT ![defaultInstance].status = "error"] ELSE inst
    /\ SseSettle(k, IF r.pc = "tools" THEN [r1 EXCEPT !.pc = "idle"] ELSE r1)
    /\ UNCHANGED <<gw, instances, userInstances, defaultInstance, nextId, call, sweep,
                   shutdownTracked, resp>>

\* the two 3 s timers of a stream fire: a race still pending settles with the
\* empty list or the fixed capabilities
SseTimeout(k) ==
    LET r == sse[k] IN
    /\ gw = "up"
    /\ r.pc = "boot"
    /\ SseSettle(k, [r EXCEPT !.tools = IF @ = "pending" THEN "empty" ELSE @,
                              !.caps = IF @ = "pending" THEN "empty" ELSE @])
    /\ UNCHANGED <<gw, inst, instances, userInstances, defaultInstance, nextId, call,
                   sweep, shutdownTracked, resp>>

\* the 30 s keepalive interval fires: a comment is written, or the interval
\* of a destroyed stream is cleared
SseKeepAlive(k) ==
    LET r == sse[k] IN
    /\ gw = "up"
    /\ r.pc = "streaming"
    /\ Len(r.out) < 3 + MaxKeepAlives
    /\ sse' = [sse EXCEPT ![k] =
                  IF r.destroyed THEN [r EXCEPT !.pc = "closed"]
                  ELSE [r EXCEPT !.out = Append(@, Event("keepalive"))]]
    /\ UNCHANGED <<supVars, oauthVars, resp>>

\* the client goes away: the socket is destroyed; the 'close' listener of a
\* stream that has its interval clears it
SseClose(k) ==
    LET r == sse[k] IN
    /\ r.pc \in {"opened", "boot", "streaming"}
    /\ ~r.destroyed
    /\ sse' = [sse EXCEPT ![k] = [r EXCEPT !.destroyed = TRUE,
                                           !.pc = IF @ = "streaming" THEN "closed" ELSE @]]
    /\ UNCHANGED <<supVars, oauthVars, resp>>

\* ------------------------------------------------------------------ callback
\* GET /oauth/callback of index.ts.  Callback c runs its saveUserTokens as
\* invocation c of the token store.
\* the handler refuses a query with an error, or without code or state (400);
\* else it calls handleCallback, which runs to its first await
OAuthCallback(c, query) ==
    IF query.error \/ query.state = <<>>
    THEN /\ cb[c].pc = "idle"
         /\ cb' = [cb EXCEPT ![c] = [IdleCallback EXCEPT !.state = query.state,
                                                         !.outcome = "refused"]]
         /\ UNCHANGED <<stateStore, swept, nextToken, issued, accepted>>
    ELSE HandleCallback(c, query.state)

\* exchangeCodeForToken settles: a failure is rethrown and the handler answers
\* 500; else getUserInfo starts its fetch
CallbackExchanged(c, ok) ==
    /\ cb[c].pc = "exchange"
    /\ cb' = [cb EXCEPT ![c].pc = IF ok THEN "userinfo" ELSE "idle",
                        ![c].outcome = IF ok THEN "none" ELSE "failed"]
    /\ UNCHANGED <<stateStore, swept, nextToken, issued, accepted>>

\* getUserInfo settles: a failure is rethrown; else saveUserTokens(union_id,
\* tokenResponse) is called
CallbackUserInfo(c, ok, u, grant) ==
    /\ cb[c].pc = "userinfo"
    /\ IF ok
       THEN /\ SaveUserTokens(c, u, grant)
            /\ cb' = [cb EXCEPT ![c].pc = "save", ![c].user = u]
       ELSE /\ cb' = [cb EXCEPT ![c].pc = "idle", ![c].outcome = "failed"]
            /\ UNCHANGED tokVars
    /\ UNCHANGED <<stateStore, swept, nextToken, issued, accepted>>

BoundWhateverHappened(m, threw, s, u) == CacheSet(m, s, u)

\* the registry once handleCallback has settled: bindSessionToUser follows
\* the await of the handler, so it runs only if handleCallback did not throw
BoundIfSucceeded(m, threw, s, u) == IF threw THEN m ELSE CacheSet(m, s, u)

\* a step of the saveUserTokens of callback c (mkdir, open or write).  If the
\* save has returned or thrown with it, handleCallback returns or rethrows
\* and the handler binds the session or answers 500, all before the next
\* event
CallbackSave(c, ok, how) ==
    LET s == SessionKey(Piece(Split(cb[c].state), 2)) IN
    /\ cb[c].pc = "save"
    /\ \/ SaveMkdir(c, ok) /\ how = "ok"
       \/ WriteOpen(c) /\ ok /\ how = "ok"
       \/ WriteData(c, how) /\ ok
    /\ IF ret'.kind = "save"
       THEN /\ cb' = [cb EXCEPT ![c].pc = "idle",
                                ![c].outcome = IF ret'.threw THEN "failed" ELSE "bound"]
            /\ sessionMappings' =
                  BoundIfSucceeded(sessionMappings, ret'.threw, s, cb[c].user)
            /\ lastOp' = IF ret'.threw THEN lastOp
                         ELSE [op |-> "bind", sessionId |-> s, result |-> cb[c].user]
       ELSE UNCHANGED <<cb, sessionMappings, lastOp>>
    /\ UNCHANGED <<stateStore, swept, nextToken, issued, accepted>>

\* ------------------------------------------------------------------ next
\* a promise continuation (the hand-over from target selection to
\* forwardRequest) runs before any timer, I/O or child event
Runnable == Garbage = {} /\ \A c \in Calls : call[c].pc # "forward"

\* the gateway serving
Init == Serving /\ OAuthInit /\ TokensInit /\ IoInit /\ now = 0 /\ config = Shipped

Next ==
    \/ Reclaim /\ UNCHANGED exceptSup
    \/ \E c \in Calls : Garbage = {} /\ ForwardSend(c) /\ UNCHANGED exceptSup
    \/ \E c \in Calls, s \in Sessions :
          Runnable /\ RouteRequest(c, s) /\ UNCHANGED exceptSup
    \/ \E c \in Calls, ok \in BOOLEAN :
          Runnable /\ CreateSpawn(c, ok) /\ UNCHANGED exceptSup
    \/ \E c \in Calls : Runnable /\ CreateMkdirFails(c) /\ UNCHANGED exceptSup
    \/ \E c \in Calls, how \in {"probe", "timeout"} :
          Runnable /\ CreateReady(c, how) /\ UNCHANGED exceptSup
    \/ \E c \in Calls, o \in {"ok", "transport", "other"} :
          Runnable /\ ForwardReply(c, o) /\ UNCHANGED exceptSup
    \/ \E w \in WorkerIds : Runnable /\ ChildExit(w) /\ UNCHANGED exceptSup
    \/ \E w \in WorkerIds : Runnable /\ KillTimer(w) /\ UNCHANGED exceptSup
    \/ \E idle \in SUBSET instances :
          Runnable /\ CleanupIdleInstances(idle) /\ UNCHANGED exceptSup
    \/ Runnable /\ PerformHealthChecks /\ UNCHANGED exceptSup
    \/ \E ok \in BOOLEAN : Runnable /\ ProbeResult(ok) /\ UNCHANGED exceptSup
    \/ Runnable /\ Shutdown /\ UNCHANGED exceptSup

Spec == Init /\ [][Next]_vars

\* the gateway from its construction on, serving the sessions no user is
\* bound to (those of Unbound): the default worker's whole life
Unbound == {s \in Sessions : GetUserIdBySession(s) = NoUser}

InitStartup ==
    Constructed /\ OAuthInit /\ TokensInit /\ IoInit /\ now = 0 /\ config = Shipped

NextStartup ==
    \/ \E c \in Calls : ForwardSend(c) /\ UNCHANGED exceptSup
    \/ \E ok \in BOOLEAN : Runnable /\ StartDefaultInstance(ok) /\ UNCHANGED exceptSup
    \/ \E how \in {"probe", "timeout"} :
          Runnable /\ DefaultReady(how) /\ UNCHANGED exceptSup
    \/ \E c \in Calls, s \in Unbound :
          Runnable /\ RouteRequest(c, s) /\ UNCHANGED exceptSup
    \/ \E c \in Calls, o \in {"ok", "transport", "other"} :
          Runnable /\ ForwardReply(c, o) /\ UNCHANGED exceptSup
    \/ Runnable /\ ChildExit(DefaultId) /\ UNCHANGED exceptSup
    \/ Runnable /\ CleanupIdleInstances({}) /\ UNCHANGED exceptSup
    \/ Runnable /\ PerformHealthChecks /\ UNCHANGED exceptSup
    \/ \E ok \in BOOLEAN : Runnable /\ ProbeResult(ok) /\ UNCHANGED exceptSup
    \/ Runnable /\ Shutdown /\ UNCHANGED exceptSup

SpecStartup == InitStartup /\ [][NextStartup]_vars

\* the 30 s health-check interval keeps firing while the gateway lives, and
\* every probe settles (a 2xx, a refusal, or the 5 s fetch timeout), however
\* many requests are routed in between; a promise continuation runs
SpecStartupFair ==
    /\ SpecStartup
    /\ WF_vars(\E c \in Calls : ForwardSend(c) /\ UNCHANGED exceptSup)
    /\ SF_vars(Runnable /\ PerformHealthChecks /\ UNCHANGED exceptSup)
    /\ SF_vars(\E ok \in BOOLEAN : Runnable /\ ProbeResult(ok) /\ UNCHANGED exceptSup)

\* the OAuth broker: authorisation URLs handed out, callbacks arriving, the
\* sweeper running whenever it is due
NextOAuth ==
    \/ \E sid \in OAuthSessions : GenerateAuthUrl(sid) /\ UNCHANGED exceptOAuth
    \/ StateCleanup /\ UNCHANGED exceptOAuth
    \/ \E c \in Callbacks, st \in Presentable :
          HandleCallback(c, st) /\ UNCHANGED exceptOAuth
    \/ \E c \in Callbacks, ok \in BOOLEAN : CallbackSettle(c, ok) /\ UNCHANGED exceptOAuth
    \/ \E t \in NextInstants :
          /\ t <= swept + SweepPeriod
          /\ Advance(t - now, MaxOAuthNow)
          /\ UNCHANGED <<supVars, oauthVars, tokVars, lastOp, ioVars, config>>

SpecOAuth == Init /\ [][NextOAuth]_vars

\* the credential store: saves (from callbacks), loads, clears and
\* ensureValidToken calls of the routes, the gateway restarting, time passing
NextTokens ==
    \/ \E o \in TokOps, u \in Users, c \in Granted :
          SaveUserTokens(o, u, c) /\ UNCHANGED <<exceptTok, now>>
    \/ \E o \in TokOps, ok \in BOOLEAN : SaveMkdir(o, ok) /\ UNCHANGED <<exceptTok, now>>
    \/ \E o \in TokOps : WriteOpen(o) /\ UNCHANGED <<exceptTok, now>>
    \/ \E o \in TokOps, how \in {"ok", "partial", "none"} :
          WriteData(o, how) /\ UNCHANGED <<exceptTok, now>>
    \/ \E o \in TokOps, u \in Users : LoadUserTokens(o, u) /\ UNCHANGED <<exceptTok, now>>
    \/ \E o \in TokOps, u \in Users : EnsureValidToken(o, u) /\ UNCHANGED <<exceptTok, now>>
    \/ \E o \in TokOps : ReadFile(o) /\ UNCHANGED <<exceptTok, now>>
    \/ \E o \in TokOps : LoadParse(o) /\ UNCHANGED <<exceptTok, now>>
    \/ \E o \in TokOps, ok \in BOOLEAN, data \in Refreshed :
          RefreshReply(o, ok, data) /\ UNCHANGED <<exceptTok, now>>
    \/ \E o \in TokOps, u \in Users : ClearUserTokens(o, u) /\ UNCHANGED <<exceptTok, now>>
    \/ \E o \in TokOps, how \in {"ok", "ENOENT", "EACCES"} :
          ClearUnlink(o, how) /\ UNCHANGED <<exceptTok, now>>
    \/ ProcessExit /\ UNCHANGED <<exceptTok, now>>
    \/ \E d \in TokenTicks :
          /\ Advance(d, MaxNow) /\ ret' = NoReturn
          /\ UNCHANGED <<exceptTok, tokenCache, tokenFile, tok, lastSaved, cleared>>

SpecTokens == Init /\ [][NextTokens]_vars

\* saves and refreshes of the credential store that overlap, none of them
\* failing: no clear, no restart, every mkdir, write and fetch succeeds
NextSaves ==
    \/ \E o \in TokOps, u \in Users, c \in Granted :
          SaveUserTokens(o, u, c) /\ UNCHANGED <<exceptTok, now>>
    \/ \E o \in TokOps : SaveMkdir(o, TRUE) /\ UNCHANGED <<exceptTok, now>>
    \/ \E o \in TokOps : WriteOpen(o) /\ UNCHANGED <<exceptTok, now>>
    \/ \E o \in TokOps : WriteData(o, "ok") /\ UNCHANGED <<exceptTok, now>>
    \/ \E o \in TokOps, u \in Users : EnsureValidToken(o, u) /\ UNCHANGED <<exceptTok, now>>
    \/ \E o \in TokOps : ReadFile(o) /\ UNCHANGED <<exceptTok, now>>
    \/ \E o \in TokOps : LoadParse(o) /\ UNCHANGED <<exceptTok, now>>
    \/ \E o \in TokOps, data \in Refreshed :
          RefreshReply(o, TRUE, data) /\ UNCHANGED <<exceptTok, now>>
    \/ \E d \in TokenTicks :
          /\ Advance(d, MaxNow) /\ ret' = NoReturn
          /\ UNCHANGED <<exceptTok, tokenCache, tokenFile, tok, lastSaved, cleared>>

SpecSaves == Init /\ [][NextSaves]_vars

\* the gateway serving one request at a time while the clock runs: the
\* reaper finds idle what the clock says is idle
Quiet == \A c \in Calls : call[c].pc = "idle"

\* the sessions whose requests the idle-time runs follow: the authenticated
\* ones, whose requests reach a worker of the user
IdleSessions == {s \in Sessions : GetUserIdBySession(s) # NoUser}

NextIdle ==
    \/ Reclaim /\ UNCHANGED exceptSup
    \/ \E c \in Calls : Garbage = {} /\ ForwardSend(c) /\ UNCHANGED exceptSup
    \/ \E c \in Calls, s \in IdleSessions :
          Runnable /\ Quiet /\ RouteRequest(c, s) /\ UNCHANGED exceptSup
    \/ \E c \in Calls, ok \in BOOLEAN :
          Runnable /\ CreateSpawn(c, ok) /\ UNCHANGED exceptSup
    \/ \E c \in Calls, how \in {"probe", "timeout"} :
          Runnable /\ CreateReady(c, how) /\ UNCHANGED exceptSup
    \/ \E c \in Calls, o \in {"ok", "transport"} :
          Runnable /\ ForwardReply(c, o) /\ UNCHANGED exceptSup
    \/ \E w \in UserWorkerIds : Runnable /\ ChildExit(w) /\ UNCHANGED exceptSup
    \/ \E w \in WorkerIds : Runnable /\ KillTimer(w) /\ UNCHANGED exceptSup
    \/ Runnable /\ CleanupIdleInstances(IdleInstances) /\ UNCHANGED exceptSup
    \/ Runnable /\ PerformHealthChecks /\ UNCHANGED exceptSup
    \/ \E ok \in BOOLEAN : Runnable /\ ProbeResult(ok) /\ UNCHANGED exceptSup
    \/ /\ Advance(IdleTick, MaxIdleNow)
       /\ UNCHANGED <<supVars, oauthVars, tokVars, lastOp, ioVars, config>>

SpecIdle == Init /\ [][NextIdle]_vars

\* the 60 s reaper interval keeps firing while the gateway lives; a promise
\* continuation runs
SpecIdleFair ==
    /\ SpecIdle
    /\ WF_vars(Reclaim /\ UNCHANGED exceptSup)
    /\ WF_vars(\E c \in Calls : Garbage = {} /\ ForwardSend(c) /\ UNCHANGED exceptSup)
    /\ SF_vars(Runnable /\ CleanupIdleInstances(IdleInstances) /\ UNCHANGED exceptSup)

\* the 5 s timer of stopInstance fires as well
SpecStopFair ==
    /\ SpecIdleFair
    /\ \A w \in UserWorkerIds : SF_vars(Runnable /\ KillTimer(w) /\ UNCHANGED exceptSup)

\* the session registry: callbacks bind sessions, routes look them up,
\* sessions are removed, the clock runs past the ttl
NextSessions ==
    \/ \E s \in RegistrySessions, u \in RegistryUsers :
          BindSessionToUser(s, u) /\ UNCHANGED <<exceptSessions, now>>
    \/ \E s \in RegistrySessions : LookupSession(s) /\ UNCHANGED <<exceptSessions, now>>
    \/ \E s \in RegistrySessions :
          IsSessionAuthenticated(s) /\ UNCHANGED <<exceptSessions, now>>
    \/ \E s \in RegistrySessions : RemoveSession(s) /\ UNCHANGED <<exceptSessions, now>>
    \/ /\ Advance(SessionTick, MaxSessionNow) /\ lastOp' = NoOp
       /\ UNCHANGED <<exceptSessions, sessionMappings>>

SpecSessions == Init /\ [][NextSessions]_vars

\* the OAuth callback route from a gateway whose registry is still empty:
\* authorisation URLs are handed out, callbacks arrive and overlap, every
\* fetch and every file operation may fail, routes look sessions up
exceptCallback ==
    <<gw, inst, instances, userInstances, defaultInstance, nextId, call, sweep,
      shutdownTracked, now, ioVars, config>>

InitCallback ==
    /\ config = Shipped
    /\ gw = "up"
    /\ inst = [w \in WorkerIds |->
                IF w = DefaultId
                THEN [NoWorker EXCEPT !.userId = "default", !.port = DefaultPort,
                                      !.status = "running", !.proc = "live"]
                ELSE NoWorker]
    /\ instances = {}
    /\ userInstances = [u \in Users |-> NoInst]
    /\ defaultInstance = DefaultId
    /\ nextId = 1
    /\ sessionMappings = <<>>
    /\ lastOp = NoOp
    /\ call = [c \in Calls |-> IdleCall]
    /\ sweep = IdleSweep
    /\ shutdownTracked = {}
    /\ OAuthInit /\ TokensInit /\ IoInit /\ now = 0

\* issued states with something appended after another '_'
Tailed == {st \o <<Sep, "y">> : st \in issued}

NextCallback ==
    \/ \E sid \in OAuthSessions :
          /\ GenerateAuthUrl(sid)
          /\ UNCHANGED <<exceptCallback, tokVars, sessionMappings, lastOp>>
    \/ \E c \in Callbacks,
          q \in [error : {FALSE}, state : Presentable \cup Tailed \cup {<<>>}]
                    \cup {[error |-> TRUE, state |-> <<>>]} :
          /\ OAuthCallback(c, q)
          /\ UNCHANGED <<exceptCallback, tokVars, sessionMappings, lastOp>>
    \/ \E c \in Callbacks, ok \in BOOLEAN :
          /\ CallbackExchanged(c, ok)
          /\ UNCHANGED <<exceptCallback, tokVars, sessionMappings, lastOp>>
    \/ \E c \in Callbacks, ok \in BOOLEAN, u \in Users, grant \in Granted :
          /\ CallbackUserInfo(c, ok, u, grant)
          /\ UNCHANGED <<exceptCallback, sessionMappings, lastOp>>
    \/ \E c \in Callbacks, ok \in BOOLEAN, how \in {"ok", "partial", "none"} :
          CallbackSave(c, ok, how) /\ UNCHANGED exceptCallback
    \/ \E s \in {SessionKey(sid) : sid \in OAuthSessions} :
          LookupSession(s) /\ UNCHANGED <<exceptCallback, oauthVars, tokVars>>

SpecCallback == InitCallback /\ [][NextCallback]_vars

\* the gateway from its construction on, with clients opening and leaving
\* event streams, GET /tools requests, the default worker answering, failing,
\* being slow or exiting, and callbacks binding sessions meanwhile
exceptIo == <<tokVars, lastOp, now, config>>

NextSse ==
    \/ \E ok \in BOOLEAN : StartDefaultInstance(ok) /\ UNCHANGED exceptSup
    \/ \E how \in {"probe", "timeout"} : DefaultReady(how) /\ UNCHANGED exceptSup
    \/ ChildExit(DefaultId) /\ UNCHANGED exceptSup
    \/ \E k \in Streams : GetToolsFromDefaultInstance(k) /\ UNCHANGED exceptIo
    \/ \E k \in Streams, which \in {"toolsCall", "capsCall"},
          outcome \in {"ok", "rpcerror", "transport", "timeout"} :
          BootReply(k, which, outcome) /\ UNCHANGED exceptIo
    \/ \E k \in Streams, sid \in OAuthSessions : SseOpen(k, sid) /\ UNCHANGED exceptIo
    \/ \E k \in Streams : SseBoot(k) /\ UNCHANGED exceptIo
    \/ \E k \in Streams : SseTimeout(k) /\ UNCHANGED exceptIo
    \/ \E k \in Streams : SseKeepAlive(k) /\ UNCHANGED exceptIo
    \/ \E k \in Streams : SseClose(k) /\ UNCHANGED exceptIo
    \/ \E sid \in OAuthSessions, u \in Users :
          /\ GetUserIdBySession(SessionKey(sid)) = NoUser
          /\ BindSessionToUser(SessionKey(sid), u)
          /\ UNCHANGED <<exceptSessions, now>>

SpecSse == InitStartup /\ [][NextSse]_vars

\* the setImmediate callback runs and the 3 s timers fire
SpecSseFair ==
    /\ SpecSse
    /\ \A k \in Streams : WF_vars(SseBoot(k) /\ UNCHANGED exceptIo)
    /\ \A k \in Streams : WF_vars(SseTimeout(k) /\ UNCHANGED exceptIo)

\* the gateway serving one request at a time, with what routeRequest answers:
\* workers are created, exit, fail their probes, refuse or are slow
exceptForward == <<oauthVars, tokVars, lastOp, now, sse, config>>

NextForward ==
    \/ Reclaim /\ resp' = NoResponse /\ UNCHANGED exceptForward
    \/ \E c \in Calls : Garbage = {} /\ ForwardRequest(c) /\ UNCHANGED exceptForward
    \/ \E c \in Calls, s \in Sessions :
          /\ Runnable /\ Quiet /\ RouteRequest(c, s)
          /\ resp' = NoResponse /\ UNCHANGED exceptForward
    \/ \E c \in Calls, ok \in BOOLEAN :
          /\ Runnable /\ CreateSpawn(c, ok)
          /\ resp' = NoResponse /\ UNCHANGED exceptForward
    \/ \E c \in Calls, how \in {"probe", "timeout"} :
          /\ Runnable /\ CreateReady(c, how)
          /\ resp' = NoResponse /\ UNCHANGED exceptForward
    \/ \E c \in Calls, o \in {"ok", "transport", "timeout", "other"} :
          Runnable /\ ForwardResponse(c, o) /\ UNCHANGED exceptForward
    \/ \E w \in WorkerIds :
          Runnable /\ ChildExit(w) /\ resp' = NoResponse /\ UNCHANGED exceptForward
    \/ Runnable /\ PerformHealthChecks /\ resp' = NoResponse /\ UNCHANGED exceptForward
    \/ \E ok \in BOOLEAN :
          Runnable /\ ProbeResult(ok) /\ resp' = NoResponse /\ UNCHANGED exceptForward

SpecForward == Init /\ [][NextForward]_vars

\* allocatePort on the tables it can be called on. A table entry holds any
\* port of the window (creations that overlap allocate before either inserts,
\* so two entries can hold the same port); the default worker is absent, on
\* the default port, or on a port of the window (default_port lies inside
\* base_port..base_port+999 in the shipped configuration).
Window == BasePort..(BasePort + PortWindow - 1)

Tabled(w, p, status) ==
    [NoWorker EXCEPT !.userId = IF w = DefaultId THEN "default" ELSE "u1",
                     !.port = p, !.proc = "live", !.status = status]

InitPorts ==
    /\ config = Shipped
    /\ gw = "up"
    /\ \E f \in [WorkerIds -> {NoPort, DefaultPort} \cup Window],
          st \in [WorkerIds -> {"running", "error"}] :
          LET held == {w \in UserWorkerIds : f[w] # NoPort} IN
          /\ \A w \in UserWorkerIds : f[w] # DefaultPort
          /\ \A w \in WorkerIds : f[w] = NoPort => st[w] = "running"
          /\ \A w \in held : st[w] = "running" => \A x \in held : x <= w
          /\ inst = [w \in WorkerIds |->
                      IF f[w] = NoPort THEN NoWorker ELSE Tabled(w, f[w], st[w])]
          /\ instances = held
          /\ userInstances =
                [u \in Users |-> IF held = {} THEN NoInst
                                 ELSE CHOOSE w \in held : \A x \in held : x <= w]
          /\ defaultInstance = IF f[DefaultId] = NoPort THEN NoInst ELSE DefaultId
    /\ nextId = 1
    /\ sessionMappings = BoundSessions
    /\ lastOp = NoOp
    /\ call = [c \in Calls |-> IdleCall]
    /\ sweep = IdleSweep
    /\ shutdownTracked = {}
    /\ OAuthInit /\ TokensInit /\ IoInit /\ now = 0

\* createUserInstance from allocatePort to the insertion in both maps, for a
\* user without a running worker (max_instances as large as the window); w is
\* the id the new worker gets. resp shows what allocatePort returned, or that
\* it threw (before any id is drawn).
CreateOnPort(w, u) ==
    /\ gw = "up"
    /\ RunningFor(u) \cap instances = {}
    /\ IF AllocatePort = NoPort
       THEN /\ resp' = [NoResponse EXCEPT !.cause = "noports"]
            /\ UNCHANGED <<inst, instances, userInstances>>
       ELSE /\ w \notin instances
            /\ resp' = [NoResponse EXCEPT !.cause = "port", !.code = AllocatePort,
                                          !.worker = w]
            /\ inst' = [inst EXCEPT ![w] = Spawned(u, AllocatePort, TRUE)]
            /\ instances' = instances \cup {w}
            /\ userInstances' = [userInstances EXCEPT ![u] = w]
    /\ UNCHANGED <<gw, defaultInstance, nextId, sessionMappings, call, sweep,
                   shutdownTracked>>

NextPorts ==
    \/ \E w \in UserWorkerIds, u \in Users : CreateOnPort(w, u) /\ UNCHANGED exceptForward
    \/ \E w \in WorkerIds : ChildExit(w) /\ resp' = NoResponse /\ UNCHANGED exceptForward

SpecPorts == InitPorts /\ [][NextPorts]_vars

\* the gateway under every configuration loadConfig lets through: the port
\* variables of the environment are drawn around the shipped values, with
\* the default port inside and outside the allocation window
Envs ==
    [port : GatewayPort..(GatewayPort + 2),
     base_port : BasePort..(BasePort + 1),
     default_instance_port : Window \cup {DefaultPort},
     max_instances : {MaxInstances}]

InitConfig ==
    /\ config \in {LoadConfig(env) : env \in Envs} \ {NoConfig}
    /\ Constructed /\ OAuthInit /\ TokensInit /\ IoInit /\ now = 0

NextConfig ==
    \/ \E ok \in BOOLEAN :
          StartDefaultInstance(ok) /\ resp' = NoResponse /\ UNCHANGED exceptForward
    \/ \E how \in {"probe", "timeout"} :
          DefaultReady(how) /\ resp' = NoResponse /\ UNCHANGED exceptForward
    \/ \E w \in UserWorkerIds, u \in Users : CreateOnPort(w, u) /\ UNCHANGED exceptForward
    \/ \E w \in WorkerIds : ChildExit(w) /\ resp' = NoResponse /\ UNCHANGED exceptForward

SpecConfig == InitConfig /\ [][NextConfig]_vars

\* the gateway serving two tenants: s1 is bound to u1, s2 to u2, s3 to
\* nobody, and the table has room for a worker of each tenant
TenantSessions == Sessions \cup {"s3"}

InitTenants ==
    /\ config = [Shipped EXCEPT !.max_instances = Cardinality(RegistryUsers)]
    /\ gw = "up"
    /\ inst = [w \in WorkerIds |->
                IF w = DefaultId
                THEN [NoWorker EXCEPT !.userId = "default", !.port = DefaultPort,
                                      !.status = "running", !.proc = "live"]
                ELSE NoWorker]
    /\ instances = {}
    /\ userInstances = [u \in RegistryUsers |-> NoInst]
    /\ defaultInstance = DefaultId
    /\ nextId = 1
    /\ sessionMappings = <<[sessionId |-> "s1", userId |-> "u1", start |-> 0],
                           [sessionId |-> "s2", userId |-> "u2", start |-> 0]>>
    /\ lastOp = NoOp
    /\ call = [c \in Calls |-> IdleCall]
    /\ sweep = IdleSweep
    /\ shutdownTracked = {}
    /\ OAuthInit /\ TokensInit /\ IoInit /\ now = 0

NextTenants ==
    \/ Reclaim /\ UNCHANGED exceptSup
    \/ \E c \in Calls : Garbage = {} /\ ForwardSend(c) /\ UNCHANGED exceptSup
    \/ \E c \in Calls, s \in TenantSessions :
          Runnable /\ RouteRequest(c, s) /\ UNCHANGED exceptSup
    \/ \E c \in Calls, ok \in BOOLEAN :
          Runnable /\ CreateSpawn(c, ok) /\ UNCHANGED exceptSup
    \/ \E c \in Calls, how \in {"probe", "timeout"} :
          Runnable /\ CreateReady(c, how) /\ UNCHANGED exceptSup
    \/ \E c \in Calls, o \in {"ok", "transport", "other"} :
          Runnable /\ ForwardReply(c, o) /\ UNCHANGED exceptSup
    \/ \E w \in UserWorkerIds : Runnable /\ ChildExit(w) /\ UNCHANGED exceptSup
    \/ \E w \in UserWorkerIds : Runnable /\ KillTimer(w) /\ UNCHANGED exceptSup
    \/ \E idle \in SUBSET instances :
          Runnable /\ Quiet /\ CleanupIdleInstances(idle) /\ UNCHANGED exceptSup

SpecTenants == InitTenants /\ [][NextTenants]_vars

\* ------------------------------------------------------------------ claims
\* the workers the supervisor tracks: the table and the default slot
Tracked == instances \cup ({defaultInstance} \ {NoInst})

\* C1: in every reachable state, for every user u, at most one worker bound to
\* u has status running (counting only the workers the table holds and whose
\* child process lives).
C1_OneRunningWorkerPerUser ==
    \A u \in Users :
        Cardinality({w \in RunningFor(u) : w \in instances /\ inst[w].proc = "live"}) <= 1

\* C2: any two distinct tracked workers whose child processes live have
\* different ports (the default worker included).
C2_LivePortsDiffer ==
    \A w1, w2 \in Tracked :
        (w1 # w2 /\ inst[w1].proc = "live" /\ inst[w2].proc = "live")
            => inst[w1].port # inst[w2].port

\* C3: in every reachable state the worker table holds at most max_instances
\* (non-default) workers.
C3_TableWithinMaxInstances ==
    Cardinality(instances) <= MaxInstances

\* C4: when routeRequest has selected its target for a session bound to u, the
\* target is a running worker bound to u whenever a worker bound to u is
\* running, and otherwise the default worker.
C4_RoutesToRunningWorkerElseDefault ==
    \A c \in Calls :
        (call[c].pc = "forward" /\ call[c].user # NoUser) =>
            IF RunningFor(call[c].user) # {}
            THEN call[c].target \in RunningFor(call[c].user)
            ELSE call[c].target = defaultInstance

\* C5: every state token is accepted by handleCallback at most once, in every
\* interleaving of callbacks (a second or concurrent presentation of the same
\* state is rejected).
C5_StateTokenAcceptedAtMostOnce ==
    \A t \in AllTokens : accepted[t] <= 1

\* a callback that passed validation is still in flight while another one
\* presenting the same state has been rejected
C5_Witness ==
    \E c, d \in Callbacks :
        /\ c # d
        /\ cb[c].pc = "exchange"
        /\ cb[d].outcome = "rejected"
        /\ cb[d].state = cb[c].state
        /\ cb[c].state \in issued

\* C6: once shutdown() has returned, every worker tracked before the call
\* (user workers and the default worker) has been sent a termination signal
\* and its child process has terminated.
C6_ShutdownTerminatesTracked ==
    gw = "down" =>
        \A w \in shutdownTracked : inst[w].sig # "none" /\ inst[w].proc # "live"

\* C7 (as stated): no single step changes a worker's status directly from
\* running to stopped.
C7_NoDirectRunningToStopped ==
    [][\A w \in WorkerIds :
          inst[w].status = "running" => inst'[w].status # "stopped"]_vars

\* C7 (amended): a worker's status becomes stopped only in the step in which
\* its child process exits (the exit handler), whatever its status was before;
\* stopInstance itself moves a running worker to stopping, never to stopped.
C7_StoppedOnlyByChildExit ==
    [][\A w \in WorkerIds :
          (inst[w].status # "stopped" /\ inst'[w].status = "stopped")
              => (inst[w].proc = "live" /\ inst'[w].proc = "dead")]_vars

\* a worker that was never signalled (hence never in status stopping) is
\* stopped, its child gone, while the gateway serves
C7_Witness ==
    /\ gw = "up"
    /\ inst[DefaultId].status = "stopped"
    /\ inst[DefaultId].proc = "dead"
    /\ inst[DefaultId].sig = "none"

\* C8: once the child of a worker has exited or failed to spawn, no step makes
\* that worker's status running.
C8_NeverRunningAfterChildGone ==
    [][\A w \in WorkerIds :
          (inst[w].proc \in {"dead", "failed"} /\ inst[w].status # "running")
              => inst'[w].status # "running"]_vars

C10_DefaultCrashBecomesError ==
    (gw = "up" /\ inst[DefaultId].proc = "dead")
        ~> (inst[DefaultId].status = "error" \/ gw = "down")

\* C11: whenever ensureValidToken returns, it returns null or credentials
\* whose expiry lies more than five minutes after the instant of the return,
\* credentials it has just refreshed included.
C11_EnsuredTokenOutlivesMargin ==
    (ret.kind = "ensure" /\ ret.res # NoTokens)
    => ret.res.expires_at - ret.at > RefreshMargin

C13_LoadAfterClearIsAbsent ==
    (ret.kind = "load" /\ ret.sinceClear) => ret.res = NoTokens

\* C14: at every instant tokens.json is absent or holds a complete record.
C14_TokenFileNeverPartial ==
    \A u \in Users : tokenFile[u].state \in {"absent", "full"}

\* C15: when routeRequest ends its choice of a target for a session bound
\* to a user u who had no running worker, and createUserInstance(u) failed
\* (the instance limit or the port window was exhausted, the mkdir failed, or
\* the spawn failed), the request is forwarded to the default worker.
C15_CreationFailureFallsBackToDefault ==
    [][\A c \in Calls :
          (call'[c].pc = "forward" /\ call[c].pc # "forward" /\ call'[c].user # NoUser)
          => /\ (call[c].pc = "idle" /\ GetInstanceByUserId(call'[c].user) = NoInst)
                    => call'[c].target = defaultInstance
             /\ call[c].pc = "mkdir" => call'[c].target = defaultInstance
             /\ (call[c].pc = "ready" /\ inst[call[c].made].proc = "failed")
                    => call'[c].target = defaultInstance]_vars

\* C16 as stated: lastActivity of the worker becomes the current time in
\* every step that forwards a request and in every step in which a liveness
\* probe of a running worker succeeds.
C16_ActivityOnForwardAndProbe ==
    [][/\ \A c \in Calls :
            (call[c].pc = "forward" /\ call'[c].pc # "forward" /\ call[c].target # NoInst)
            => inst'[call[c].target].lastActivity = now
       /\ (/\ sweep.cur # NoInst /\ sweep' # sweep
           /\ inst[sweep.cur].status = "running" /\ inst'[sweep.cur].status = "running")
          => inst'[sweep.cur].lastActivity = now]_vars

\* C16 amended: lastActivity of the worker becomes the current time in every
\* step that forwards a request; a step of the health checks, successful
\* probe or not, leaves every lastActivity as it was.
C16_ActivityOnForwardNotProbe ==
    [][/\ \A c \in Calls :
            (call[c].pc = "forward" /\ call'[c].pc # "forward" /\ call[c].target # NoInst)
            => inst'[call[c].target].lastActivity = now
       /\ sweep' # sweep
          => \A w \in WorkerIds : inst'[w].lastActivity = inst[w].lastActivity]_vars

\* a request has been forwarded to the worker of a user after the clock had
\* moved, and a probe of a running worker touched long ago is in flight
C16_Witness ==
    /\ \E w \in UserWorkerIds : inst[w].lastActivity > 0 /\ inst[w].status = "running"
    /\ sweep.cur # NoInst /\ inst[sweep.cur].status = "running"
    /\ inst[sweep.cur].lastActivity < now

C18_StateOlderThanTtlRejected ==
    [][\A c \in Callbacks :
          (/\ cb[c].pc = "idle" /\ cb'[c] # cb[c]
           /\ \E r \in stateStore :
                 /\ r.token = Piece(Split(cb'[c].state), 1)
                 /\ now - r.createdAt > StateTtl)
          => cb'[c].outcome = "rejected"]_vars

\* C19: a handleCallback that presents the state generateAuthUrl produced for
\* a session id S, while that authorisation is pending, passes validation and
\* returns S as the session id.
C19_IssuedStatePassesValidation ==
    [][\A c \in Callbacks :
          (cb[c].pc = "idle" /\ cb'[c] # cb[c])
          => \A r \in stateStore :
                StateParam(r.token, r.sessionId) = cb'[c].state
                => /\ cb'[c].outcome # "rejected"
                   /\ Piece(Split(cb'[c].state), 2) = r.sessionId]_vars

\* C20: a binding of a session s to a user u stays as it is until s is
\* bound again, removed, evicted (a new session is bound while the registry
\* is full and s is the least recently used) or outlives the ttl; a lookup
\* (getUserIdBySession or isSessionAuthenticated) returns the bound user and
\* leaves every binding as it was; after removeSession(s) the session has no
\* user.
C20_BindingHeldUntilRemoved ==
    [][/\ \A s \in RegistrySessions :
            (/\ UserOf(sessionMappings, s) # NoUser
             /\ UserOf(sessionMappings, s)' # UserOf(sessionMappings, s))
            => \/ lastOp'.op = "bind" /\ lastOp'.sessionId = s
               \/ lastOp'.op = "remove" /\ lastOp'.sessionId = s
               \/ /\ lastOp'.op = "bind"
                  /\ Len(sessionMappings) = MaxSessions
                  /\ sessionMappings[1].sessionId = s
               \/ now' - (CHOOSE e \in {sessionMappings[i] : i \in 1..Len(sessionMappings)} :
                             e.sessionId = s).start > SessionTtl
       /\ (lastOp'.op \in {"lookup", "auth"} /\ now' = now)
          => /\ lastOp'.result = UserOf(sessionMappings, lastOp'.sessionId)
             /\ \A s \in RegistrySessions :
                   UserOf(sessionMappings, s)' = UserOf(sessionMappings, s)
       /\ (lastOp'.op = "remove" /\ now' = now)
          => \A s \in RegistrySessions :
                s = lastOp'.sessionId => UserOf(sessionMappings, s)' = NoUser]_vars

\* a lookup has just returned the user of a session bound before the clock
\* moved, with the registry full
C20_Witness ==
    /\ lastOp.op = "lookup" /\ lastOp.result = "u2"
    /\ Len(sessionMappings) = MaxSessions
    /\ now > 0
    /\ sessionMappings[MaxSessions].sessionId = lastOp.sessionId
    /\ sessionMappings[MaxSessions].start = now

\* the bindings the registry holds: the (session, user) pairs of its live
\* entries
Bindings(m) ==
    {<<m[i].sessionId, m[i].userId>> : i \in {j \in 1..Len(m) : Live(m, m[j].sessionId)}}

\* C21: a step puts a binding (s, u) into the registry only if it is the
\* last step of an OAuth callback whose state validation, code exchange,
\* identity fetch (which gave u) and credential save all succeeded and whose
\* state named s; a step in which a callback is refused, rejected or fails
\* leaves the registry as it was.
C21_BindingOnlyAfterSuccessfulCallback ==
    [][/\ \A b \in Bindings(sessionMappings') \ Bindings(sessionMappings) :
            \E c \in Callbacks :
                /\ cb[c].pc = "save" /\ cb'[c].outcome = "bound"
                /\ accepted[Piece(Split(cb[c].state), 1)] >= 1
                /\ tok[c].pc = "write" /\ ret'.kind = "save" /\ ~ret'.threw
                /\ tokenFile'[cb[c].user].state = "full"
                /\ b = <<SessionKey(Piece(Split(cb[c].state), 2)), cb[c].user>>
       /\ \A c \in Callbacks :
            (cb'[c] # cb[c] /\ cb'[c].outcome \in {"refused", "rejected", "failed"})
            => sessionMappings' = sessionMappings]_vars

\* a callback has bound session s1, and a later callback for s1 failed at
\* its credential save while that binding was in the registry
C21_Witness ==
    /\ <<"s1", "u1">> \in Bindings(sessionMappings)
    /\ \E c \in Callbacks : cb[c].outcome = "failed" /\ cb[c].user = "u1"
    /\ \E c \in Callbacks : cb[c].outcome = "bound"

\* C22: no call of getToolsFromDefaultInstance throws: with the default
\* worker absent, not running, or its fetch failing in any way, the call
\* returns the fallback list.
C22_GetToolsNeverThrows ==
    \A k \in Streams : sse[k].toolsCall # "threw"

\* the events of a stream in the order the claim gives them
InOrder(out) ==
    /\ Len(out) >= 1 => out[1].type = "comment"
    /\ Len(out) >= 2 => Len(out) >= 3 /\ out[2].type = "metadata"
                        /\ out[3].type = "capabilities"
    /\ \A i \in 4..Len(out) : out[i].type = "keepalive"

\* C24: a stream whose client stays connected carries the comment line, then
\* one metadata event, then one capabilities event, then keepalive comments
\* and nothing else; once opened it gets both events in the end, whether the
\* default worker answers, is down, is in error or takes longer than 3 s.
C24_StreamCarriesEventsInOrder ==
    /\ [](\A k \in Streams :
             (sse[k].pc # "idle" /\ sse[k].pc # "tools" /\ ~sse[k].destroyed)
             => /\ InOrder(sse[k].out)
                /\ sse[k].pc # "failed"
                /\ sse[k].pc = "streaming" => Len(sse[k].out) >= 3)
    /\ \A k \in Streams :
          (sse[k].pc = "opened")
          ~> (sse[k].destroyed \/ (sse[k].pc = "streaming" /\ Len(sse[k].out) >= 3))

\* a stream got its events with the empty tool list of the 3 s timer while
\* the default worker was in error, and a keepalive comment after them
C24_Witness ==
    \E k \in Streams :
        /\ sse[k].pc = "streaming" /\ ~sse[k].destroyed
        /\ Len(sse[k].out) = 4
        /\ sse[k].out[2].tools = "empty"
        /\ inst[DefaultId].status = "error"

\* C25: in the step that writes the metadata event of a stream, the event's
\* authenticated is true exactly if the stream's session is bound to a user
\* at that moment, and its oauth_url is present exactly if authenticated is
\* false.
C25_MetadataTellsAuthentication ==
    [][\A k \in Streams :
          (Len(sse[k].out) = 1 /\ Len(sse'[k].out) > 1)
          => /\ sse'[k].out[2].type = "metadata"
             /\ sse'[k].out[2].authenticated
                   = (UserOf(sessionMappings, SessionKey(sse[k].session)) # NoUser)
             /\ sse'[k].out[2].oauth_url = ~sse'[k].out[2].authenticated]_vars

\* a stream opened for a session that was not bound got its metadata after
\* a callback had bound the session: authenticated, without oauth_url
C25_Witness ==
    \E k \in Streams :
        /\ sse[k].session = <<"s2", Sep, "x">>
        /\ Len(sse[k].out) >= 2
        /\ sse[k].out[2].authenticated /\ ~sse[k].out[2].oauth_url

\* C23: when routeRequest has answered a request whose POST was refused by
\* the worker's port or ran into the 30 s timeout, the worker's status is
\* error and the answer is the JSON-RPC error -32603 with the id of the
\* request.
C23_TransportFailureMarksError ==
    resp.cause \in {"transport", "timeout"}
    => /\ inst[resp.worker].status = "error"
       /\ resp.code = -32603
       /\ resp.id \in Calls

\* C30: a step of routeRequest starts the HTTP POST to a worker only if the
\* worker's status is running in that step; a request whose target is in
\* any other status gets the JSON-RPC error -32603 with its id instead, and
\* no POST.
C30_PostOnlyToRunningWorker ==
    [][\A c \in Calls :
          /\ (call[c].pc # "posting" /\ call'[c].pc = "posting")
             => inst[call'[c].target].status = "running"
          /\ (/\ call[c].pc = "forward" /\ call'[c] # call[c]
              /\ call[c].target # NoInst
              /\ inst[call[c].target].status # "running")
             => /\ call'[c].pc = "idle"
                /\ resp'.code = -32603 /\ resp'.id = c]_vars

\* a request that fell to the default worker was answered -32603 without a
\* POST: a failed probe had marked the default worker error
C30_Witness ==
    /\ resp.cause = "notrunning" /\ resp.code = -32603
    /\ resp.worker = DefaultId
    /\ inst[DefaultId].status = "error" /\ inst[DefaultId].proc = "live"
    /\ \A c \in Calls : call[c].pc # "posting"

\* C26: allocatePort returns the smallest port of the window base_port ..
\* base_port + window - 1 that neither a table entry nor the default worker
\* holds, and throws only when every port of the window is held.
HeldPorts ==
    {inst[w].port : w \in instances}
        \cup {inst[w].port : w \in {defaultInstance} \ {NoInst}}

C26_AllocatePortSmallestFree ==
    [][ /\ resp'.cause = "port" =>
            /\ resp'.code \in Window \ HeldPorts
            /\ \A q \in Window : q < resp'.code => q \in HeldPorts
        /\ resp'.cause = "noports" => Window \subseteq HeldPorts
        /\ resp'.cause \in {"port", "noports"} /\ Window \ HeldPorts # {}
              => resp'.cause = "port" ]_vars

\* both table entries were created by allocations, the later one on the port
\* an exit had freed, below the port the earlier one holds
C26_Witness ==
    /\ resp.cause = "port"
    /\ instances = {1, 2}
    /\ inst[1].port = BasePort + 1
    /\ inst[2].port = BasePort
    /\ inst[2].status = "starting" /\ inst[1].status = "starting"

\* C27: a worker stopInstance has sent SIGTERM to, and whose child keeps
\* running, is sent SIGKILL, whatever probes and forwarding failures do to its
\* status meanwhile.
C27_ForcedKillFollowsStop ==
    \A w \in UserWorkerIds :
        (inst[w].sig = "SIGTERM" /\ inst[w].proc = "live")
            ~> (inst[w].sig = "SIGKILL" \/ inst[w].proc # "live")

\* C28: when the readiness wait of createUserInstance ends for a worker whose
\* child has died or was never spawned, createUserInstance throws (the call
\* goes on without that worker) and neither the table nor the user map holds
\* the worker.
C28_FailedCreationLeavesNothing ==
    [][\A c \in Calls :
          /\ call[c].pc = "ready"
          /\ call'[c].pc = "forward"
          /\ inst[call[c].made].proc # "live"
          => /\ call'[c].target # call[c].made
             /\ call[c].made \notin instances'
             /\ \A u \in Users : userInstances'[u] # call[c].made]_vars

\* C29: a user worker of the table marked error leaves the table in the end,
\* or is stopped by the reaper, also while its child keeps running.
C29_ErrorWorkerLeavesTable ==
    \A w \in UserWorkerIds :
        (w \in instances /\ inst[w].status = "error")
            ~> (w \notin instances \/ inst[w].status \in {"stopping", "stopped"})

\* C31: once the saves and refreshes of a user that overlapped have all
\* completed, the cache entry and tokens.json hold the same record.
C31_SavesLeaveCacheAndFileEqual ==
    \A u \in Users :
        (/\ ret.kind \in {"save", "ensure"} /\ ret.user = u
         /\ \A o \in TokOps : tok[o].user # u
         /\ tokenCache[u] # NoTokens)
        => tokenFile[u] = FullFile(tokenCache[u])

\* C32: in the step in which the fetch of a refresh fails, ensureValidToken
\* returns null, the cache entry of the user is gone and tokens.json is as it
\* was.
C32_FailedRefreshDropsCacheOnly ==
    [][\A o \in TokOps :
          (tok[o].pc = "fetch" /\ tok'[o].pc = "idle" /\ ret'.kind = "ensure")
          => /\ ret'.res = NoTokens
             /\ ret'.user = tok[o].user
             /\ tokenCache'[tok[o].user] = NoTokens
             /\ tokenFile' = tokenFile]_vars

\* ensureValidToken has returned null for a user whose stored record is still
\* in tokens.json and no longer in the cache
C32_Witness ==
    /\ ret.kind = "ensure" /\ ret.res = NoTokens
    /\ lastSaved[ret.user] # NoTokens
    /\ tokenFile[ret.user] = FullFile(lastSaved[ret.user])
    /\ tokenCache[ret.user] = NoTokens

\* C33: once the client of a stream has gone, the stream has no keepalive
\* interval set, no pending authorisation is created for it and nothing is
\* written to it.
C33_DisconnectEndsBootstrap ==
    [][\A k \in Streams :
          (sse[k].destroyed /\ sse[k].pc \in {"opened", "boot", "streaming"})
          => /\ sse'[k].pc # "streaming"
             /\ stateStore' = stateStore
             /\ sse'[k].out = sse[k].out]_vars

C35_RunningWorkerReused ==
    [][\A c \in Calls, u \in Users :
          (/\ call[c].pc = "idle" /\ call'[c].pc # "idle" /\ call'[c].user = u
           /\ RunningFor(u) \cap instances # {})
          => /\ call'[c].pc = "forward"
             /\ call'[c].target \in RunningFor(u) \cap instances
             /\ instances' = instances /\ userInstances' = userInstances
             /\ \A w \in WorkerIds :
                   inst'[w] = [inst[w] EXCEPT !.lastActivity = inst'[w].lastActivity]
             /\ \A w \in WorkerIds \ {call'[c].target} : inst'[w] = inst[w]]_vars

\* C36: the user map and the worker table agree: a map entry points to a
\* table entry of that user, and every user worker of the table is the one
\* its user's map entry points to.
C36_MapsAgree ==
    /\ \A u \in Users :
          userInstances[u] # NoInst
          => userInstances[u] \in instances /\ inst[userInstances[u]].userId = u
    /\ \A w \in instances :
          inst[w].userId # "default" => userInstances[inst[w].userId] = w

\* C37: stopped is terminal: a worker record whose status is stopped keeps
\* that status in every later step, until the record itself is discarded.
C37_StoppedIsTerminal ==
    [][\A w \in WorkerIds :
          (inst[w].status = "stopped" /\ inst'[w].userId = inst[w].userId)
          => inst'[w].status = "stopped"]_vars

\* C39: a save that failed leaves no record in the cache that the file does
\* not hold: when saveUserTokens has thrown and nothing else is in flight for
\* the user, the cache entry is absent or is the record of tokens.json, so a
\* following load cannot return credentials that were not written.
C39_FailedSaveLeavesNoUnwrittenRecord ==
    \A u \in Users :
        (/\ ret.kind = "save" /\ ret.threw /\ ret.user = u
         /\ \A o \in TokOps : tok[o].user # u)
        => \/ tokenCache[u] = NoTokens
           \/ tokenFile[u] = FullFile(tokenCache[u])

\* C40: under every configuration loadConfig accepts, no user worker of the
\* table holds the gateway's own port, and none holds the port of the default
\* worker, wherever the default port lies.
C40_WorkerPortsAvoidGatewayAndDefault ==
    \A w \in instances \ {DefaultId} :
        /\ inst[w].port # config.port
        /\ defaultInstance # NoInst => inst[w].port # inst[defaultInstance].port

\* two user workers allocated around a default worker that sits on the first
\* port of the window, after the default worker has exited
C40_Witness ==
    /\ config.default_instance_port = config.base_port
    /\ defaultInstance = DefaultId /\ inst[DefaultId].proc = "dead"
    /\ instances = UserWorkerIds
    /\ {inst[w].port : w \in instances} = {config.base_port + 1, config.base_port + 2}

====
